---- MODULE Spec2Model ----
(***************************************************************************)
(* ClickORM: the WHERE condition compiler (src/query/where.ts), the        *)
(* chainable query state of Model (src/core/model.ts) and TableSchema /    *)
(* SchemaBuilder (src/core/schema.ts) with the schema validator.           *)
(***************************************************************************)
EXTENDS Integers, Sequences, FiniteSets, TLC

\* ------------------------------------------------------------------------
\* Bounds of the model
\* ------------------------------------------------------------------------
\* largest starting parameter offset given to the WhereBuilder constructor
MaxStart == 2
\* largest number of children of an and/or group in the generated trees
MaxChildren == 2
\* largest number of elements of an in / notIn array in the generated trees
MaxValues == 2

\* ------------------------------------------------------------------------
\* JavaScript values.  Every value is a record of the same shape:
\*   type  : the result of typeof ("null" for null)
\*   cls   : for objects "Object", "Array" or "Date"; for a number or a
\*           bigint "" or what it is counted from (see below); otherwise ""
\*   h     : number and bigint: twice the numeric value (so 3 is 1.5);
\*           boolean: 1 for true; Date: the time value
\*   s     : the text of a string
\*   items : Array: its elements; Object: its entries <<key, value>> in
\*           insertion order (the order of Object.entries)
\* ------------------------------------------------------------------------
Val(type, cls, h, s, items) ==
  [type |-> type, cls |-> cls, h |-> h, s |-> s, items |-> items]

Null == Val("null", "", 0, "", <<>>)
Undef == Val("undefined", "", 0, "", <<>>)
Num(n) == Val("number", "", 2 * n, "", <<>>)
Half(k) == Val("number", "", k, "", <<>>)
Big(n) == Val("bigint", "", 2 * n, "", <<>>)
Str(s) == Val("string", "", 0, s, <<>>)
Bool(b) == Val("boolean", "", IF b THEN 1 ELSE 0, "", <<>>)
DateV(t) == Val("object", "Date", t, "", <<>>)
Arr(items) == Val("object", "Array", 0, "", items)
Obj(entries) == Val("object", "Object", 0, "", entries)
Raw(sql) == Obj(<< <<"_brand", Str("RawExpression")>>, <<"sql", Str(sql)>> >>)

\* Object.keys / Object.entries / property read of an Object value
Keys(o) == {o.items[i][1] : i \in DOMAIN o.items}
HasKey(o, k) == k \in Keys(o)
Get(o, k) == LET i == CHOOSE j \in DOMAIN o.items : o.items[j][1] = k IN o.items[i][2]

\* JavaScript truthiness, as used by `if (value)`
Truthy(v) ==
  CASE v.type = "null" -> FALSE
    [] v.type = "undefined" -> FALSE
    [] v.type = "boolean" -> v.h = 1
    [] v.type = "number" -> v.h # 0
    [] v.type = "bigint" -> v.h # 0
    [] v.type = "string" -> v.s # ""
    [] OTHER -> TRUE

\* ------------------------------------------------------------------------
\* SQL text.  A SQL string is a sequence of tokens; the text it stands for
\* is the concatenation of the tokens' texts:
\*   kw : fixed text emitted by the compiler
\*   id : a backtick-quoted identifier
\*   ph : a placeholder {name:Type}
\*   raw: the text of a raw expression, verbatim
\* The empty string is the empty sequence (no token has empty text).
\* ------------------------------------------------------------------------
Tok(k, s, ty) == [k |-> k, s |-> s, ty |-> ty]
Kw(s) == <<Tok("kw", s, "")>>
RawText(s) == IF s = "" THEN <<>> ELSE <<Tok("raw", s, "")>>

RECURSIVE join(_, _)
\* Array.prototype.join on an array of SQL strings
join(parts, sep) ==
  IF parts = <<>> THEN <<>>
  ELSE IF Len(parts) = 1 THEN parts[1]
  ELSE parts[1] \o sep \o join(Tail(parts), sep)

\* parts.filter(Boolean) on an array of strings: drops the empty strings
filterBoolean(parts) == SelectSeq(parts, LAMBDA p : p # <<>>)

\* ------------------------------------------------------------------------
\* Identifiers
\* ------------------------------------------------------------------------
Lower == {"a","b","c","d","e","f","g","h","i","j","k","l","m",
          "n","o","p","q","r","s","t","u","v","w","x","y","z"}
Upper == {"A","B","C","D","E","F","G","H","I","J","K","L","M",
          "N","O","P","Q","R","S","T","U","V","W","X","Y","Z"}
Digit == {"0","1","2","3","4","5","6","7","8","9"}

\* The characters of the field and table names used in this model
Chars(name) ==
  CASE name = "age" -> <<"a","g","e">>
    [] name = "name" -> <<"n","a","m","e">>
    [] name = "id" -> <<"i","d">>
    [] name = "active" -> <<"a","c","t","i","v","e">>
    [] name = "_x9" -> <<"_","x","9">>
    [] name = "a b" -> <<"a"," ","b">>
    [] name = "9a" -> <<"9","a">>
    [] name = "a;--" -> <<"a",";","-","-">>
    [] name = "users" -> <<"u","s","e","r","s">>
    [] name = "" -> <<>>
    [] name = "posts" -> <<"p","o","s","t","s">>
    [] name = "user_id" -> <<"u","s","e","r","_","i","d">>
    [] name = "ttttttttttttttttttttttttttttttttttttttttttttttttttttttttttttttttt" -> [i \in 1..65 |-> "t"]
    [] name = "$and" -> <<"$","a","n","d">>
    [] name = "$or" -> <<"$","o","r">>
    [] name = "$not" -> <<"$","n","o","t">>
    [] OTHER -> <<"?">>

\* /^[a-zA-Z_][a-zA-Z0-9_]*$/.test(identifier)
isValidIdentifier(identifier) ==
  LET cs == Chars(identifier) IN
  /\ Len(cs) >= 1
  /\ cs[1] \in Lower \cup Upper \cup {"_"}
  /\ \A i \in 2..Len(cs) : cs[i] \in Lower \cup Upper \cup Digit \cup {"_"}

\* SQLBuilder.identifier: rejects a name outside the identifier grammar,
\* otherwise the backtick-quoted name
identifier(field) ==
  IF isValidIdentifier(field)
  THEN [ok |-> TRUE, sql |-> <<Tok("id", field, "")>>, error |-> ""]
  ELSE [ok |-> FALSE, sql |-> <<>>, error |-> "Invalid SQL identifier: " \o field]

\* ------------------------------------------------------------------------
\* Type guards (src/core/types.ts)
\* ------------------------------------------------------------------------
isRawExpression(value) ==
  /\ value.type = "object"
  /\ value.cls = "Object"
  /\ HasKey(value, "_brand")
  /\ Get(value, "_brand") = Str("RawExpression")

validKeys ==
  {"eq", "ne", "gt", "gte", "lt", "lte", "in", "notIn", "like", "notLike",
   "ilike", "between", "isNull", "notNull"}

\* An Array's own keys are its indices and a Date has none: neither has a
\* key of the operator vocabulary.
isWhereOperator(value) ==
  /\ value.type = "object"
  /\ value.cls = "Object"
  /\ \E k \in Keys(value) : k \in validKeys

\* ------------------------------------------------------------------------
\* WhereBuilder (src/query/where.ts)
\* The builder's fields are params (a map from parameter name to value) and
\* paramCounter; the operators below take and return them, so that what a
\* call leaves behind when it throws part-way is kept.
\* ------------------------------------------------------------------------
NoParams == [n \in {} |-> Null]

\* `param${n}`
paramName(n) == "param" \o ToString(n)

inferParamType(value) ==
  CASE value.type = "null" -> "Nullable(String)"
    [] value.type = "undefined" -> "Nullable(String)"
    [] value.type = "number" ->
         (IF value.cls # "NaN" /\ value.h % 2 = 0 THEN "Int32" ELSE "Float64")
    [] value.type = "bigint" -> "Int64"
    [] value.type = "string" -> "String"
    [] value.type = "boolean" -> "UInt8"
    [] value.type = "object" /\ value.cls = "Date" -> "DateTime"
    [] value.type = "object" /\ value.cls = "Array" -> "Array(String)"
    [] OTHER -> "String"

\* A mutation of addParam: the counter is not advanced.
addParam_NoIncrement(value, params, paramCounter) ==
  [sql |-> <<Tok("ph", paramName(paramCounter), inferParamType(value))>>,
   params |-> (paramName(paramCounter) :> value) @@ params,
   paramCounter |-> paramCounter]

\* A mutation of addParam: the value is written into the SQL text.
addParam_Interpolate(value, params, paramCounter) ==
  [sql |-> <<Tok("val", ToString(value.h) \o value.s, inferParamType(value))>>,
   params |-> params,
   paramCounter |-> paramCounter]

addParam(value, params, paramCounter) ==
  [sql |-> <<Tok("ph", paramName(paramCounter), inferParamType(value))>>,
   params |-> (paramName(paramCounter) :> value) @@ params,
   paramCounter |-> paramCounter + 1]

\* What a step of the compiler gives: a SQL string or a thrown error, and
\* the builder's fields after it.
Ok(sql, params, paramCounter) ==
  [ok |-> TRUE, sql |-> sql, params |-> params, paramCounter |-> paramCounter,
   error |-> ""]
Throw(error, params, paramCounter) ==
  [ok |-> FALSE, sql |-> <<>>, params |-> params, paramCounter |-> paramCounter,
   error |-> error]

\* the text before a placeholder, followed by the placeholder that a (the
\* result of an addParam) gives
bound(before, a) == Ok(before \o a.sql, a.params, a.paramCounter)

\* `${fieldName} <op> ${this.addParam(value)}`
compare(fieldName, op, value, params, paramCounter) ==
  bound(fieldName \o Kw(op), addParam(value, params, paramCounter))

RECURSIVE addParams(_, _, _, _)
\* value.map((v) => this.addParam(v)): the placeholders phs, in order
addParamsNext(values, phs, a) ==
  addParams(Tail(values), Append(phs, a.sql), a.params, a.paramCounter)
addParams(values, phs, params, paramCounter) ==
  IF values = <<>>
  THEN [phs |-> phs, params |-> params, paramCounter |-> paramCounter]
  ELSE addParamsNext(values, phs, addParam(values[1], params, paramCounter))

\* `${fieldName} IN (${params.join(', ')})`, r the result of the map
inList(fieldName, op, r) ==
  Ok(fieldName \o Kw(op) \o join(r.phs, Kw(", ")) \o Kw(")"), r.params,
     r.paramCounter)

\* `${fieldName} BETWEEN ${this.addParam(value[0])} AND ${this.addParam(value[1])}`
betweenSecond(fieldName, a, b) ==
  Ok(fieldName \o Kw(" BETWEEN ") \o a.sql \o Kw(" AND ") \o b.sql, b.params,
     b.paramCounter)
betweenFirst(fieldName, value, a) ==
  betweenSecond(fieldName, a, addParam(value.items[2], a.params, a.paramCounter))

\* A mutation of the empty in / notIn case: a parameter is bound for it.
emptyList_Binds(op, params, paramCounter) ==
  Ok(Kw(IF op = "in" THEN "1=0" ELSE "1=1"),
     (paramName(paramCounter) :> Undef) @@ params, paramCounter + 1)

\* parts.push('1=0') for an empty in, parts.push('1=1') for an empty notIn
emptyList(op, params, paramCounter) ==
  Ok(Kw(IF op = "in" THEN "1=0" ELSE "1=1"), params, paramCounter)

\* A mutation of the isNull and notNull cases: notNull: false gives
\* IS NOT NULL, as notNull: true does.
nullTest_Independent(fieldName, op, value, params, paramCounter) ==
  Ok(fieldName \o Kw(IF Truthy(value) /\ op = "isNull"
                     THEN " IS NULL" ELSE " IS NOT NULL"),
     params, paramCounter)

\* the cases isNull and notNull: if (value) ... else ...
nullTest(fieldName, op, value, params, paramCounter) ==
  Ok(fieldName \o Kw(IF Truthy(value) <=> (op = "isNull")
                     THEN " IS NULL" ELSE " IS NOT NULL"),
     params, paramCounter)

\* A mutation of the default case: the entry is skipped.
unknownOperator_Skipped(op, params, paramCounter) ==
  Ok(<<>>, params, paramCounter)

\* default: throw new ValidationError(...)
unknownOperator(op, params, paramCounter) ==
  Throw("Unknown operator: " \o op, params, paramCounter)

\* A mutation of Array.isArray: every value passes.
isArray_Anything(value) == value.type # "no type"

\* Array.isArray(value)
isArray(value) == value.type = "object" /\ value.cls = "Array"

\* One case of the switch of processOperators
operatorCase(fieldName, op, value, params, paramCounter) ==
  CASE op = "eq" ->
         IF value.type = "null"
         THEN Ok(fieldName \o Kw(" IS NULL"), params, paramCounter)
         ELSE compare(fieldName, " = ", value, params, paramCounter)
    [] op = "ne" ->
         IF value.type = "null"
         THEN Ok(fieldName \o Kw(" IS NOT NULL"), params, paramCounter)
         ELSE compare(fieldName, " != ", value, params, paramCounter)
    [] op \in {"gt", "gte", "lt", "lte", "like", "notLike", "ilike"} ->
         compare(fieldName,
                 CASE op = "gt" -> " > "
                   [] op = "gte" -> " >= "
                   [] op = "lt" -> " < "
                   [] op = "lte" -> " <= "
                   [] op = "like" -> " LIKE "
                   [] op = "notLike" -> " NOT LIKE "
                   [] op = "ilike" -> " ILIKE ",
                 value, params, paramCounter)
    [] op \in {"in", "notIn"} ->
         IF ~isArray(value)
         THEN Throw(IF op = "in" THEN "IN operator requires an array"
                    ELSE "NOT IN operator requires an array", params, paramCounter)
         ELSE IF Len(value.items) = 0
         THEN emptyList(op, params, paramCounter)
         ELSE inList(fieldName, IF op = "in" THEN " IN (" ELSE " NOT IN (",
                     addParams(value.items, <<>>, params, paramCounter))
    [] op = "between" ->
         IF ~isArray(value) \/ Len(value.items) # 2
         THEN Throw("BETWEEN operator requires an array of 2 values", params,
                    paramCounter)
         ELSE betweenFirst(fieldName, value,
                           addParam(value.items[1], params, paramCounter))
    [] op \in {"isNull", "notNull"} ->
         nullTest(fieldName, op, value, params, paramCounter)
    [] OTHER -> unknownOperator(op, params, paramCounter)

RECURSIVE operatorLoop(_, _, _, _, _)
\* for (const [op, value] of Object.entries(operators)) { switch ... },
\* then parts.join(' AND '); r is what the case of the first entry gave
operatorNext(fieldName, entries, parts, r) ==
  IF ~r.ok THEN r
  ELSE operatorLoop(fieldName, Tail(entries), Append(parts, r.sql), r.params,
                    r.paramCounter)
operatorLoop(fieldName, entries, parts, params, paramCounter) ==
  IF entries = <<>>
  THEN Ok(join(parts, Kw(" AND ")), params, paramCounter)
  ELSE operatorNext(fieldName, entries, parts,
                    operatorCase(fieldName, entries[1][1], entries[1][2], params,
                                 paramCounter))

processOperators(fieldName, operators, params, paramCounter) ==
  operatorLoop(fieldName, operators.items, <<>>, params, paramCounter)

\* processFieldCondition after its first line, fieldName the quoted name
fieldCondition(fieldName, value, params, paramCounter) ==
  IF isRawExpression(value)
  THEN Ok(RawText(Get(value, "sql").s), params, paramCounter)
  ELSE IF value.type \in {"null", "undefined"}
  THEN Ok(fieldName \o Kw(" IS NULL"), params, paramCounter)
  ELSE IF isWhereOperator(value)
  THEN processOperators(fieldName, value, params, paramCounter)
  ELSE compare(fieldName, " = ", value, params, paramCounter)

\* the first line of processFieldCondition has thrown, or the rest runs
checkedField(checked, value, params, paramCounter) ==
  IF ~checked.ok THEN Throw(checked.error, params, paramCounter)
  ELSE fieldCondition(checked.sql, value, params, paramCounter)

\* A mutation of processFieldCondition: the raw expression is returned
\* before the field name is checked.
processFieldCondition_RawFirst(field, value, params, paramCounter) ==
  IF isRawExpression(value)
  THEN Ok(RawText(Get(value, "sql").s), params, paramCounter)
  ELSE checkedField(identifier(field), value, params, paramCounter)

processFieldCondition(field, value, params, paramCounter) ==
  checkedField(identifier(field), value, params, paramCounter)

\* A mutation of the key tests of processCondition: the $-spellings are
\* not recognized.
combinator_PlainOnly(key) ==
  CASE key = "and" -> "and"
    [] key = "or" -> "or"
    [] key = "not" -> "not"
    [] OTHER -> "field"

\* The branch of processCondition an entry's key selects
combinator(key) ==
  CASE key = "and" \/ key = "$and" -> "and"
    [] key = "or" \/ key = "$or" -> "or"
    [] key = "not" \/ key = "$not" -> "not"
    [] OTHER -> "field"

\* A mutation of the and/or branch: the empty results are kept and the
\* group is always pushed.
pushGroup_NoFilter(parts, results, sep) ==
  Append(parts, Kw("(") \o join(results, sep) \o Kw(")"))

\* .filter(Boolean), then the group is pushed when something is left
pushGroup(parts, results, sep) ==
  IF Len(filterBoolean(results)) > 0
  THEN Append(parts, Kw("(") \o join(filterBoolean(results), sep) \o Kw(")"))
  ELSE parts

\* if (notCondition) parts.push(`NOT (${notCondition})`)
pushNot(parts, notCondition) ==
  IF notCondition # <<>>
  THEN Append(parts, Kw("NOT (") \o notCondition \o Kw(")"))
  ELSE parts

\* if (fieldCondition) parts.push(fieldCondition)
pushField(parts, sql) ==
  IF sql # <<>> THEN Append(parts, sql) ELSE parts

RECURSIVE processCondition(_, _, _)
RECURSIVE mapConditions(_, _, _, _)
RECURSIVE conditionLoop(_, _, _, _)

\* value.map((c) => this.processCondition(c)): the children's SQL, in order;
\* r is what the first child gave
mapNext(children, results, r) ==
  IF ~r.ok
  THEN [ok |-> FALSE, results |-> <<>>, params |-> r.params,
        paramCounter |-> r.paramCounter, error |-> r.error]
  ELSE mapConditions(Tail(children), Append(results, r.sql), r.params,
                     r.paramCounter)
mapConditions(children, results, params, paramCounter) ==
  IF children = <<>>
  THEN [ok |-> TRUE, results |-> results, params |-> params,
        paramCounter |-> paramCounter, error |-> ""]
  ELSE mapNext(children, results,
               processCondition(children[1], params, paramCounter))

\* the loop of processCondition after an and/or entry, m what the map gave
groupNext(entries, parts, sep, m) ==
  IF ~m.ok THEN Throw(m.error, m.params, m.paramCounter)
  ELSE conditionLoop(Tail(entries), pushGroup(parts, m.results, sep), m.params,
                     m.paramCounter)

\* the loop after a not entry, r what the child gave
notNext(entries, parts, r) ==
  IF ~r.ok THEN r
  ELSE conditionLoop(Tail(entries), pushNot(parts, r.sql), r.params,
                     r.paramCounter)

\* the loop after a field entry, r what processFieldCondition gave
fieldNext(entries, parts, r) ==
  IF ~r.ok THEN r
  ELSE conditionLoop(Tail(entries), pushField(parts, r.sql), r.params,
                     r.paramCounter)

\* one entry [key, value] of the loop of processCondition
conditionEntry(entries, key, value, branch, parts, params, paramCounter) ==
  CASE branch = "and" ->
         groupNext(entries, parts, Kw(" AND "),
                   mapConditions(value.items, <<>>, params, paramCounter))
    [] branch = "or" ->
         groupNext(entries, parts, Kw(" OR "),
                   mapConditions(value.items, <<>>, params, paramCounter))
    [] branch = "not" ->
         notNext(entries, parts, processCondition(value, params, paramCounter))
    [] OTHER ->
         fieldNext(entries, parts,
                   processFieldCondition(key, value, params, paramCounter))

\* for (const [key, value] of Object.entries(condition)) { ... },
\* then parts.join(' AND ')
conditionLoop(entries, parts, params, paramCounter) ==
  IF entries = <<>>
  THEN Ok(join(parts, Kw(" AND ")), params, paramCounter)
  ELSE conditionEntry(entries, entries[1][1], entries[1][2],
                      combinator(entries[1][1]), parts, params, paramCounter)

processCondition(condition, params, paramCounter) ==
  conditionLoop(condition.items, <<>>, params, paramCounter)

\* A mutation of the first two lines of build: the fields are left as the
\* previous call left them.
buildStart_NoReset(startingParamCount, params, paramCounter) ==
  [params |-> params, paramCounter |-> paramCounter]

\* this.params = {}; this.paramCounter = this.startingParamCount
buildStart(startingParamCount, params, paramCounter) ==
  [params |-> NoParams, paramCounter |-> startingParamCount]

\* return { sql: sql || '1=1', params: this.params }, r what
\* processCondition gave
buildReturn(r) ==
  IF r.ok
  THEN Ok(IF r.sql # <<>> THEN r.sql ELSE Kw("1=1"), r.params, r.paramCounter)
  ELSE r

buildFrom(condition, s) ==
  buildReturn(processCondition(condition, s.params, s.paramCounter))

\* WhereBuilder.build on a builder whose fields are params and paramCounter:
\* the returned {sql, params} or the thrown error, and the fields afterwards
build(condition, startingParamCount, params, paramCounter) ==
  buildFrom(condition, buildStart(startingParamCount, params, paramCounter))

\* build on a newly constructed WhereBuilder(sqlBuilder, startingParamCount)
buildFresh(condition, startingParamCount) ==
  build(condition, startingParamCount, NoParams, startingParamCount)

\* ------------------------------------------------------------------------
\* The condition trees given to build
\* ------------------------------------------------------------------------
Entry(key, value) == <<key, value>>
Cond1(key, value) == Obj(<<Entry(key, value)>>)
Cond2(k1, v1, k2, v2) == Obj(<<Entry(k1, v1), Entry(k2, v2)>>)

\* the first n of a fixed list of array elements
SampleItems == <<Num(1), Half(3), Str("x"), Num(4)>>
Prefix(n) == Arr(SubSeq(SampleItems, 1, n))

Literals ==
  {Num(30), Num(0), Half(3), Str("bob"), Str(""), Null, Undef, Bool(TRUE),
   Bool(FALSE), Big(7), DateV(1000), Arr(<<Num(1)>>),
   Obj(<<Entry("zip", Num(1))>>), Obj(<<>>)}

ValidNames == {"age", "name", "_x9"}
InvalidNames == {"a b", "9a", "a;--", ""}

SingleOperators ==
  {Cond1(op, v) : op \in {"eq", "ne"}, v \in {Num(18), Null, Undef}}
  \cup {Cond1(op, v) : op \in {"gt", "gte", "lt", "lte"}, v \in {Num(18), Half(37)}}
  \cup {Cond1(op, Str("%a%")) : op \in {"like", "notLike", "ilike"}}
  \cup {Cond1(op, Prefix(n)) : op \in {"in", "notIn"}, n \in 0..MaxValues}
  \cup {Cond1(op, Num(1)) : op \in {"in", "notIn", "between"}}
  \cup {Cond1("between", Prefix(n)) : n \in 0..3}
  \cup {Cond1(op, v) : op \in {"isNull", "notNull"},
                       v \in {Bool(TRUE), Bool(FALSE), Num(0), Str("no")}}

MultiOperators ==
  {Cond2("gt", Num(18), "lt", Num(65)),
   Cond2("gt", Num(18), "bogus", Num(1)),
   Cond2("bogus", Num(1), "gt", Num(18)),
   Cond2("in", Prefix(2), "between", Prefix(1)),
   Cond2("eq", Null, "isNull", Bool(FALSE)),
   Cond2("between", Prefix(2), "notIn", Prefix(0)),
   Cond2("in", Prefix(0), "gt", Num(18)),
   Cond2("notIn", Prefix(0), "in", Prefix(0)),
   Cond2("in", Num(1), "bogus", Num(1)),
   Cond2("isNull", Bool(TRUE), "notNull", Bool(TRUE)),
   Cond1("bogus", Num(1)),
   Cond1("in", Str("ab")),
   Cond1("between", Obj(<<Entry("zip", Num(1))>>))}

RawExpressions == {Raw("age > 1"), Raw("")}

FieldValues == Literals \cup SingleOperators \cup MultiOperators \cup RawExpressions

\* trees without combinators
Leaves ==
  {Obj(<<>>)}
  \cup {Cond1("age", v) : v \in FieldValues}
  \cup {Cond1(f, v) : f \in {"name", "_x9"}, v \in {Str("bob"), Null, Raw("")}}
  \cup {Cond1(f, v) : f \in InvalidNames,
                      v \in {Num(30), Null, Cond1("gt", Num(18)), Raw("1=1"), Raw("")}}
  \cup {Cond2("age", v, f, w) :
          v \in {Num(30), Cond2("gt", Num(18), "lt", Num(65)), Raw(""), Cond1("in", Num(1))},
          f \in {"name", "a b"},
          w \in {Str("bob"), Raw("name = 'x'"), Cond1("in", Prefix(2))}}

\* the children the generated groups are made of
Kernel ==
  {Obj(<<>>), Cond1("age", Num(30)), Cond1("name", Str("bob")),
   Cond1("name", Raw("")), Cond1("age", Cond2("gt", Num(18), "lt", Num(65))),
   Cond1("a b", Num(1)), Cond1("age", Cond2("gt", Num(18), "bogus", Num(1)))}

SeqsUpTo(S, n) == UNION {[1..m -> S] : m \in 0..n}

AndOrKeys == {"and", "$and", "or", "$or"}
NotKeys == {"not", "$not"}

\* one combinator over leaves
Groups ==
  {Cond1(k, Arr(cs)) : k \in AndOrKeys, cs \in SeqsUpTo(Kernel, MaxChildren)}
  \cup {Cond1(k, c) : k \in NotKeys, c \in Kernel}

\* the nested children
InnerGroups ==
  {Cond1("and", Arr(<<>>)),
   Cond1("$or", Arr(<<Cond1("age", Num(30)), Cond1("name", Str("bob"))>>)),
   Cond1("or", Arr(<<Cond1("name", Raw("")), Obj(<<>>)>>)),
   Cond1("$not", Obj(<<>>)),
   Cond1("not", Cond1("age", Num(30))),
   Cond1("age", Half(3))}

\* the groups of at most one leaf
InnerGroupsOfOne ==
  {Cond1(k, Arr(cs)) : k \in AndOrKeys, cs \in SeqsUpTo(Kernel, 1)}
  \cup {Cond1(k, c) : k \in NotKeys, c \in Kernel}

Nested ==
  {Cond1(k, Arr(cs)) : k \in AndOrKeys, cs \in SeqsUpTo(InnerGroups, 2)}
  \cup {Cond1(k, c) : k \in NotKeys, c \in InnerGroups \cup InnerGroupsOfOne}

\* several entries in one node, both spellings of a combinator among them
Mixed ==
  {Cond2(k1, Arr(<<Cond1("age", Num(30))>>), k2, Arr(<<c, Cond1("name", Str("bob"))>>)) :
     k1 \in {"and", "$and"}, k2 \in {"or", "$or", "$and"}, c \in InnerGroups}
  \cup {Cond2("age", Num(30), k, c) : k \in NotKeys, c \in InnerGroups}
  \cup {Cond2(k, c, "name", Str("bob")) : k \in NotKeys, c \in InnerGroups}
  \cup {Cond2("not", c, "$not", Cond1("name", Null)) : c \in InnerGroups}

Conditions == Leaves \cup Groups \cup Nested \cup Mixed

\* the trees compiled between two compilations of the tree under test
Disturbers ==
  {Obj(<<>>), Cond1("age", Cond1("in", Prefix(2))),
   Cond1("age", Cond2("gt", Str("left behind"), "bogus", Num(1)))}

\* ------------------------------------------------------------------------
\* State
\* ------------------------------------------------------------------------
VARIABLES
  \* a WhereBuilder and its caller
  condition,            \* the condition tree the caller compiles
  startingParamCount,   \* WhereBuilder.startingParamCount
  params,               \* WhereBuilder.params
  paramCounter,         \* WhereBuilder.paramCounter
  result,               \* what the last build(condition) returned or threw,
                        \* and the builder's params when it was called
  \* Models, the arrays and condition objects they refer to, their caller
  heap,                 \* the arrays and condition objects, by address
  models,               \* the Model objects, in the order of their creation
  built,                \* for each model, the query it built when it was returned
  lastCall,             \* the last call made on a model, or the caller's last step
  \* Table schemas, the schema definition objects they refer to, a builder
  objects,              \* the schema definition objects, by address
  schemas,              \* the TableSchema objects, in the order of their creation
  constructed,          \* for each TableSchema, what it showed when it was constructed
  schemaCall,           \* the last call that makes or changes a schema
  \* the validator and the type mapper, which keep no state
  typeCall,             \* the last call of one of their functions: its
                        \* arguments and what it returned or threw
  \* what a Model owns or reaches besides its query state
  managers,             \* for each model, its HookManager (this.hooks)
  registered,           \* the model RelationRegistry.getModel(tableName) gives
  origin,               \* for each model, the model it was cloned from (0:
                        \* none) and whether only the library refers to it
  operation             \* the last operation that reaches the client: the
                        \* hooks it ran and the commands it sent, in order

whereVars == <<condition, startingParamCount, params, paramCounter, result>>
modelVars == <<heap, models, built, lastCall>>
schemaVars == <<objects, schemas, constructed, schemaCall>>
typeVars == <<typeCall>>
ormVars == <<managers, registered, origin, operation>>
vars == <<whereVars, modelVars, schemaVars, typeVars, ormVars>>
\* what a call on the WhereBuilder, on a Model, on a schema leaves alone
notWhereVars == <<modelVars, schemaVars, typeVars, ormVars>>
notModelVars == <<whereVars, schemaVars, typeVars>>
notSchemaVars == <<whereVars, modelVars, typeVars, ormVars>>
notTypeVars == <<whereVars, modelVars, schemaVars, ormVars>>
\* what a call on a HookManager leaves alone
notHookVars ==
  <<whereVars, modelVars, schemaVars, typeVars, registered, origin, operation>>

\* ------------------------------------------------------------------------
\* WhereBuilder: the calls
\* ------------------------------------------------------------------------
NoResult ==
  [called |-> FALSE, ok |-> FALSE, sql |-> <<>>, params |-> NoParams,
   error |-> "", before |-> NoParams]

\* new WhereBuilder(sqlBuilder, startingParamCount)
InitWhere ==
  /\ condition \in Conditions
  /\ startingParamCount \in {0, MaxStart}
  /\ params = NoParams
  /\ paramCounter = startingParamCount
  /\ result = NoResult

\* what the caller of build sees: {sql, params}, or the error thrown
Outcome(r) ==
  [ok |-> r.ok, sql |-> r.sql, params |-> IF r.ok THEN r.params ELSE NoParams,
   error |-> r.error]

\* whereBuilder.build(condition), r what the call gives
BuildDone(r) ==
  /\ params' = r.params
  /\ paramCounter' = r.paramCounter
  /\ result' = [called |-> TRUE, ok |-> r.ok, sql |-> r.sql,
                params |-> IF r.ok THEN r.params ELSE NoParams,
                error |-> r.error,
                before |-> params]
  /\ UNCHANGED <<condition, startingParamCount, notWhereVars>>

Build == BuildDone(build(condition, startingParamCount, params, paramCounter))

\* whereBuilder.build(d) for another tree d, its result dropped
BuildOtherDone(r) ==
  /\ params' = r.params
  /\ paramCounter' = r.paramCounter
  /\ UNCHANGED <<condition, startingParamCount, result, notWhereVars>>

BuildOther ==
  \E d \in Disturbers :
    BuildOtherDone(build(d, startingParamCount, params, paramCounter))

\* whereBuilder.reset()
Reset ==
  /\ params' = NoParams
  /\ paramCounter' = 0
  /\ UNCHANGED <<condition, startingParamCount, result, notWhereVars>>

NextWhere == Build \/ BuildOther \/ Reset


\* ------------------------------------------------------------------------
\* HookManager (src/unnamed/part_007).  this.hooks is a Map from a hook type
\* to an array of listeners; here the sequence of its entries, in the
\* order of their insertion.  A listener is a callback and a name, "" for
\* no name.
\* ------------------------------------------------------------------------
HookTypes ==
  {"beforeValidate", "afterValidate", "validationFailed", "beforeFind",
   "beforeFindAfterExpandIncludeAll", "beforeFindAfterOptions", "afterFind",
   "beforeCount", "beforeCreate", "afterCreate", "beforeUpdate", "afterUpdate",
   "beforeSave", "afterSave", "beforeDestroy", "afterDestroy",
   "beforeBulkCreate", "afterBulkCreate", "beforeBulkUpdate", "afterBulkUpdate",
   "beforeBulkDestroy", "afterBulkDestroy", "beforeUpsert", "afterUpsert",
   "beforeSync", "afterSync"}

\* new HookManager()
createHookManager == <<>>

\* this.hooks.has(type) and this.hooks.get(type), <<>> standing for an
\* array of no listeners
hasType(hooks, type) == \E i \in DOMAIN hooks : hooks[i].type = type
indexOfType(hooks, type) == CHOOSE i \in DOMAIN hooks : hooks[i].type = type
listenersOf(hooks, type) ==
  IF hasType(hooks, type) THEN hooks[indexOfType(hooks, type)].listeners ELSE <<>>

\* addListener(hookType, callback, name)
withType(hooks, type) ==
  IF hasType(hooks, type) THEN hooks
  ELSE Append(hooks, [type |-> type, listeners |-> <<>>])
addListener(hooks, type, callback, name) ==
  [withType(hooks, type) EXCEPT
     ![indexOfType(withType(hooks, type), type)].listeners =
        Append(@, [callback |-> callback, name |-> name])]

\* listeners.findIndex(...): the first listener of that name, or of that
\* callback, or 0; byName tells a string from a function
findIndex(listeners, byName, nameOrCallback) ==
  LET found == {i \in DOMAIN listeners :
                  IF byName THEN listeners[i].name = nameOrCallback
                  ELSE listeners[i].callback = nameOrCallback}
  IN IF found = {} THEN 0 ELSE CHOOSE i \in found : \A j \in found : i <= j

\* listeners.splice(index, 1)
splice(listeners, index) ==
  SubSeq(listeners, 1, index - 1) \o SubSeq(listeners, index + 1, Len(listeners))

\* the Map after the listener at index of a type is removed
spliced(hooks, type, index) ==
  [hooks EXCEPT ![indexOfType(hooks, type)].listeners = splice(@, index)]

\* removeListener(hookType, nameOrCallback): the Map after it and what it
\* returns
removeListener(hooks, type, byName, nameOrCallback) ==
  IF ~hasType(hooks, type) THEN [hooks |-> hooks, returned |-> FALSE]
  ELSE IF findIndex(listenersOf(hooks, type), byName, nameOrCallback) # 0
  THEN [hooks |-> spliced(hooks, type,
                          findIndex(listenersOf(hooks, type), byName, nameOrCallback)),
        returned |-> TRUE]
  ELSE [hooks |-> hooks, returned |-> FALSE]

\* runHooks(hookType, instance, options): the callbacks that are called
runHooks(hooks, type) ==
  [i \in DOMAIN listenersOf(hooks, type) |-> listenersOf(hooks, type)[i].callback]

\* hasHooks(hookType)
hasHooks(hooks, type) == hasType(hooks, type) /\ Len(listenersOf(hooks, type)) > 0

\* clearHooks(hookType), "" standing for no argument
clearHooks(hooks, type) ==
  IF type # "" THEN SelectSeq(hooks, LAMBDA e : e.type # type) ELSE <<>>

\* getActiveHookTypes()
getActiveHookTypes(hooks) == [i \in DOMAIN hooks |-> hooks[i].type]

\* getListenerCount(hookType)
getListenerCount(hooks, type) ==
  IF hasType(hooks, type) THEN Len(listenersOf(hooks, type)) ELSE 0

\* ------------------------------------------------------------------------
\* Model (src/core/model.ts): the query state and the chainable calls
\* ------------------------------------------------------------------------
\* largest number of Model objects (the base model and the ones the chainable
\* calls return)
MaxModels == 3

\* null, where an address of the heap is expected
NullRef == 0
\* null, where a limit or offset is expected
NullCount == -1

\* A cell of the heap is an array (items: its elements) or a condition
\* object (value: the tree); caller: the caller of the model holds a
\* reference to it, having passed it as an argument.
ArrayCell(items, caller) ==
  [kind |-> "array", items |-> items, value |-> Null, caller |-> caller]
ObjectCell(value) ==
  [kind |-> "object", items |-> <<>>, value |-> value, caller |-> TRUE]

\* createEmptyQueryState, the three empty arrays at addresses a, a+1, a+2
createEmptyQueryState(a) ==
  [whereConditions |-> a, selectFields |-> NullRef, orderByFields |-> a + 1,
   limitValue |-> NullCount, offsetValue |-> NullCount, groupByFields |-> NullRef,
   includeOptions |-> a + 2]

\* [...array]: a new array with the same elements
spread(h, a) == ArrayCell(h[a].items, FALSE)

\* array ? [...array] : null, the copy going to address n
spreadOrNull(a, n) == IF a # NullRef THEN n ELSE NullRef
present(a) == IF a # NullRef THEN 1 ELSE 0

\* A mutation of clone: the array of where conditions is not copied.
clone_SharedWhere(this, h) ==
  [model |->
     [whereConditions |-> this.whereConditions,
      selectFields |-> spreadOrNull(this.selectFields, Len(h) + 1),
      orderByFields |-> Len(h) + 1 + present(this.selectFields),
      limitValue |-> this.limitValue,
      offsetValue |-> this.offsetValue,
      groupByFields |-> spreadOrNull(this.groupByFields,
                                     Len(h) + 2 + present(this.selectFields)),
      includeOptions |-> Len(h) + 2 + present(this.selectFields)
                           + present(this.groupByFields)],
   heap |->
     h \o (IF this.selectFields # NullRef THEN <<spread(h, this.selectFields)>>
           ELSE <<>>)
       \o <<spread(h, this.orderByFields)>>
       \o (IF this.groupByFields # NullRef THEN <<spread(h, this.groupByFields)>>
           ELSE <<>>)
       \o <<spread(h, this.includeOptions)>>]

\* Model.clone: a new Model whose query state holds copies of the arrays of
\* this one; the copies are new cells of the heap h
clone(this, h) ==
  [model |->
     [whereConditions |-> Len(h) + 1,
      selectFields |-> spreadOrNull(this.selectFields, Len(h) + 2),
      orderByFields |-> Len(h) + 2 + present(this.selectFields),
      limitValue |-> this.limitValue,
      offsetValue |-> this.offsetValue,
      groupByFields |-> spreadOrNull(this.groupByFields,
                                     Len(h) + 3 + present(this.selectFields)),
      includeOptions |-> Len(h) + 3 + present(this.selectFields)
                           + present(this.groupByFields)],
   heap |->
     h \o <<spread(h, this.whereConditions)>>
       \o (IF this.selectFields # NullRef THEN <<spread(h, this.selectFields)>>
           ELSE <<>>)
       \o <<spread(h, this.orderByFields)>>
       \o (IF this.groupByFields # NullRef THEN <<spread(h, this.groupByFields)>>
           ELSE <<>>)
       \o <<spread(h, this.includeOptions)>>]

\* array.push(x) on the array at address a
push(h, a, x) == [h EXCEPT ![a].items = Append(@, x)]

\* The chainable calls, c what clone gave; each gives the returned model
\* and the heap after the call.
\* where(condition), condition the address of the caller's object
where(c, conditionRef) ==
  [model |-> c.model, heap |-> push(c.heap, c.model.whereConditions, conditionRef)]

\* select(fields), fields the address of the caller's array
select(c, fieldsRef) ==
  [model |-> [c.model EXCEPT !.selectFields = fieldsRef], heap |-> c.heap]

\* orderBy(field, direction)
orderBy(c, field, direction) ==
  [model |-> c.model,
   heap |-> push(c.heap, c.model.orderByFields,
                 [field |-> field, direction |-> direction])]

\* limit(count) and offset(count), for count >= 0
limit(c, count) ==
  [model |-> [c.model EXCEPT !.limitValue = count], heap |-> c.heap]
offset(c, count) ==
  [model |-> [c.model EXCEPT !.offsetValue = count], heap |-> c.heap]

\* groupBy(...fields): the rest parameter is a new array
groupBy(c, fields) ==
  [model |-> [c.model EXCEPT !.groupByFields = Len(c.heap) + 1],
   heap |-> Append(c.heap, ArrayCell(fields, FALSE))]

\* include(includeOptions): [...cloned.queryState.includeOptions, ...includeOptions]
include(c, includeOptions) ==
  [model |-> [c.model EXCEPT !.includeOptions = Len(c.heap) + 1],
   heap |-> Append(c.heap,
                   ArrayCell(c.heap[c.model.includeOptions].items \o includeOptions,
                             FALSE))]

\* The query state of a model with every reference followed.
Deref(m, h) ==
  [whereConditions |->
     [i \in DOMAIN h[m.whereConditions].items |->
        h[h[m.whereConditions].items[i]].value],
   selectFields |->
     IF m.selectFields = NullRef THEN <<>> ELSE h[m.selectFields].items,
   selectNull |-> m.selectFields = NullRef,
   orderByFields |-> h[m.orderByFields].items,
   limitValue |-> m.limitValue,
   offsetValue |-> m.offsetValue,
   groupByFields |->
     IF m.groupByFields = NullRef THEN <<>> ELSE h[m.groupByFields].items,
   groupNull |-> m.groupByFields = NullRef,
   includeOptions |-> h[m.includeOptions].items]

\* Model.buildWhereClause on a query state q: the conditions combined with
\* and, compiled by a new WhereBuilder
combinedCondition(q) ==
  IF Len(q.whereConditions) = 1 THEN q.whereConditions[1]
  ELSE Cond1("and", Arr(q.whereConditions))
buildWhereClause(q, startingParamCount_) ==
  buildFresh(combinedCondition(q), startingParamCount_)

\* Model.buildSelectQuery on a query state q: what is given to the SQL
\* builder (fields, WHERE, GROUP BY, ORDER BY, LIMIT, OFFSET), and the
\* parameters; w is the compiled WHERE clause
selectQuery(q, w) ==
  [ok |-> w.ok,
   error |-> w.error,
   fields |-> IF q.selectNull THEN <<"*">> ELSE q.selectFields,
   where |-> IF w.ok /\ w.sql # Kw("1=1") THEN w.sql ELSE <<>>,
   groupBy |-> q.groupByFields,
   orderBy |-> q.orderByFields,
   limit |-> q.limitValue,
   offset |-> q.offsetValue,
   params |-> IF w.ok THEN w.params ELSE NoParams]
buildSelectQuery(q) ==
  IF Len(q.whereConditions) > 0
  THEN selectQuery(q, buildWhereClause(q, 0))
  ELSE selectQuery(q, Ok(<<>>, NoParams, 0))

\* the query the model at address-resolved state builds
Built(m, h) == buildSelectQuery(Deref(m, h))

\* ------------------------------------------------------------------------
\* Model: the calls and the caller
\* ------------------------------------------------------------------------
\* what the caller passes
ArgCondition == Cond1("age", Cond1("gt", Num(18)))
ArgFields == <<"id">>
ArgCounts == {-1, 5}
ArgInclude == <<"posts">>

NoCall ==
  [op |-> "new", receiver |-> 0, ok |-> TRUE, ref |-> NullRef, count |-> 0]
Call(op, receiver, ok, ref, count) ==
  [op |-> op, receiver |-> receiver, ok |-> ok, ref |-> ref, count |-> count]

\* new Model(tableName, schema, client)
\* where a model comes from
Origin(from, internal) == [from |-> from, internal |-> internal]
\* the models the caller has: the base model and what the calls returned
Callers == {i \in DOMAIN models : ~origin[i].internal}

\* no operation yet
Operation(op, receiver, data, options, events, threw) ==
  [op |-> op, receiver |-> receiver, data |-> data, options |-> options,
   events |-> events, threw |-> threw]
NoOperation == Operation("", 0, Undef, Undef, <<>>, "")

\* new Model(tableName, schema, client): a new HookManager, a
\* RelationBuilder whose constructor registers the model under its table
\* name, an empty query state
InitModel ==
  /\ heap = <<ArrayCell(<<>>, FALSE), ArrayCell(<<>>, FALSE), ArrayCell(<<>>, FALSE)>>
  /\ models = <<createEmptyQueryState(1)>>
  /\ built = <<Built(createEmptyQueryState(1), heap)>>
  /\ lastCall = NoCall
  /\ managers = <<createHookManager>>
  /\ registered = 1
  /\ origin = <<Origin(0, FALSE)>>
  /\ operation = NoOperation

\* a chainable call has returned r.model
\* clone makes it with new Model(...), so it has a HookManager of its own
\* and takes the place of the registered model
Returned(r, call) ==
  /\ operation = NoOperation
  /\ heap' = r.heap
  /\ models' = Append(models, r.model)
  /\ built' = Append(built, Built(r.model, r.heap))
  /\ lastCall' = call
  /\ managers' = Append(managers, createHookManager)
  /\ registered' = Len(models) + 1
  /\ origin' = Append(origin, Origin(call.receiver, FALSE))
  /\ UNCHANGED <<operation, notModelVars>>

\* the addresses of the objects of a kind that the caller holds
Held(kind) == {a \in DOMAIN heap : heap[a].kind = kind /\ heap[a].caller}

\* models[i].where(condition) with a new condition object
WhereNew ==
  \E i \in Callers :
    /\ Len(models) < MaxModels
    /\ Returned(where(clone(models[i], Append(heap, ObjectCell(ArgCondition))),
                      Len(heap) + 1),
                Call("where", i, TRUE, Len(heap) + 1, 0))

\* models[i].where(condition) with a condition object passed before
WhereAgain ==
  \E i \in Callers, a \in Held("object") :
    /\ Len(models) < MaxModels
    /\ Returned(where(clone(models[i], heap), a), Call("where", i, TRUE, a, 0))

\* models[i].select(fields) with a new array
SelectNew ==
  \E i \in Callers :
    /\ Len(models) < MaxModels
    /\ Returned(select(clone(models[i], Append(heap, ArrayCell(ArgFields, TRUE))),
                       Len(heap) + 1),
                Call("select", i, TRUE, Len(heap) + 1, 0))

\* models[i].select(fields) with an array passed before
SelectAgain ==
  \E i \in Callers, a \in Held("array") :
    /\ Len(models) < MaxModels
    /\ Returned(select(clone(models[i], heap), a), Call("select", i, TRUE, a, 0))

\* models[i].orderBy('age', 'DESC')
OrderBy ==
  \E i \in Callers :
    /\ Len(models) < MaxModels
    /\ Returned(orderBy(clone(models[i], heap), "age", "DESC"),
                Call("orderBy", i, TRUE, NullRef, 0))

\* a call with a negative count throws before anything is cloned
Threw(call) ==
  /\ operation = NoOperation
  /\ lastCall' = call
  /\ UNCHANGED <<heap, models, built, ormVars, notModelVars>>

\* models[i].limit(count)
Limit ==
  \E i \in Callers, count \in ArgCounts :
    /\ Len(models) < MaxModels
    /\ IF count < 0 THEN Threw(Call("limit", i, FALSE, NullRef, count))
       ELSE Returned(limit(clone(models[i], heap), count),
                     Call("limit", i, TRUE, NullRef, count))

\* models[i].offset(count)
Offset ==
  \E i \in Callers, count \in ArgCounts :
    /\ Len(models) < MaxModels
    /\ IF count < 0 THEN Threw(Call("offset", i, FALSE, NullRef, count))
       ELSE Returned(offset(clone(models[i], heap), count),
                     Call("offset", i, TRUE, NullRef, count))

\* models[i].groupBy('age')
GroupBy ==
  \E i \in Callers :
    /\ Len(models) < MaxModels
    /\ Returned(groupBy(clone(models[i], heap), <<"age">>),
                Call("groupBy", i, TRUE, NullRef, 0))

\* models[i].include(includeOptions)
Include ==
  \E i \in Callers :
    /\ Len(models) < MaxModels
    /\ Returned(include(clone(models[i], heap), ArgInclude),
                Call("include", i, TRUE, NullRef, 0))

\* the caller changes a nested value of a condition object it passed:
\* condition.age.gt = 99
MutateCondition ==
  \E a \in Held("object") :
    /\ heap[a].value = ArgCondition
    /\ heap' = [heap EXCEPT ![a].value = Cond1("age", Cond1("gt", Num(99)))]
    /\ lastCall' = Call("mutate", 0, TRUE, a, 0)
    /\ UNCHANGED <<models, built, ormVars, notModelVars>>

\* the caller pushes onto an array it passed: fields.push('password')
MutateFields ==
  \E a \in Held("array") :
    /\ heap[a].items = ArgFields
    /\ heap' = push(heap, a, "password")
    /\ lastCall' = Call("mutate", 0, TRUE, a, 0)
    /\ UNCHANGED <<models, built, ormVars, notModelVars>>

NextModel ==
  \/ WhereNew \/ WhereAgain \/ SelectNew \/ SelectAgain \/ OrderBy \/ Limit
  \/ Offset \/ GroupBy \/ Include \/ MutateCondition \/ MutateFields

\* ------------------------------------------------------------------------
\* HookManager: the calls, on the HookManager of a model
\* ------------------------------------------------------------------------
\* largest number of listeners, over all the HookManagers
MaxListeners == 2

\* what the caller passes: a hook type, and a callback without a name or
\* another one with a name
ListenTypes == {"beforeBulkUpdate", "validationFailed", "afterValidate"}
Listeners == {[callback |-> "f", name |-> ""], [callback |-> "g", name |-> "audit"]}

RECURSIVE listenerTotal(_)
listenerTotal(hooks) ==
  IF hooks = <<>> THEN 0
  ELSE Len(Head(hooks).listeners) + listenerTotal(Tail(hooks))
RECURSIVE listenersOfAll(_)
listenersOfAll(all) ==
  IF all = <<>> THEN 0 ELSE listenerTotal(Head(all)) + listenersOfAll(Tail(all))

\* models[i].hooks.addListener(type, callback, name)
AddListener ==
  \E i \in DOMAIN managers, type \in ListenTypes, l \in Listeners :
    /\ listenersOfAll(managers) < MaxListeners
    /\ managers' = [managers EXCEPT ![i] = addListener(@, type, l.callback, l.name)]
    /\ UNCHANGED notHookVars

\* models[i].hooks.removeListener(type, nameOrCallback), by the callback or
\* by the name
RemoveListener ==
  \E i \in DOMAIN managers, type \in ListenTypes, l \in Listeners,
     byName \in BOOLEAN :
    /\ byName => l.name # ""
    /\ managers' =
         [managers EXCEPT
            ![i] = removeListener(@, type, byName,
                                  IF byName THEN l.name ELSE l.callback).hooks]
    /\ UNCHANGED notHookVars

\* models[i].hooks.clearHooks(type) and clearHooks()
ClearHooks ==
  \E i \in DOMAIN managers, type \in ListenTypes \cup {""} :
    /\ managers' = [managers EXCEPT ![i] = clearHooks(@, type)]
    /\ UNCHANGED notHookVars

NextHooks == AddListener \/ RemoveListener \/ ClearHooks

\* ------------------------------------------------------------------------
\* Validator (src/utils/validator.ts): schema definitions and table names
\* ------------------------------------------------------------------------
\* A column definition; type "" is a missing type, length 0 and precision 0
\* are a missing or zero one, hasScale tells scale from undefined,
\* hasDefault tells default from undefined.  enumValues is the number of
\* the values 'v1', 'v2', ... of an enumeration and enumDeclared tells an
\* array of no values from no array.
Column(type, primaryKey, nullable, autoIncrement) ==
  [type |-> type, primaryKey |-> primaryKey, nullable |-> nullable,
   autoIncrement |-> autoIncrement, length |-> 0, precision |-> 0,
   hasScale |-> FALSE, scale |-> 0, elementType |-> "", enumValues |-> 0,
   enumDeclared |-> FALSE, hasDefault |-> FALSE]

IntegerTypes ==
  {"UInt8", "UInt16", "UInt32", "UInt64", "Int8", "Int16", "Int32", "Int64"}

\* the largest number of values of an Enum8 and of an Enum16 column
MaxEnum8 == 256
MaxEnum16 == 65536
\* the longest table name
MaxTableName == 64

Valid == [ok |-> TRUE, error |-> "", fields |-> <<>>]
Invalid(error, fields) == [ok |-> FALSE, error |-> error, fields |-> fields]

\* the type-specific part of validateColumnDefinition
validateColumnType(fieldName, column) ==
  CASE column.type = "FixedString" ->
         IF column.length <= 0
         THEN Invalid("FixedString requires a positive length", <<fieldName>>)
         ELSE Valid
    [] column.type = "Decimal" ->
         IF column.precision <= 0
         THEN Invalid("Decimal requires a positive precision", <<fieldName>>)
         ELSE IF column.hasScale
                 /\ (column.scale < 0 \/ column.scale > column.precision)
         THEN Invalid("Decimal scale must be between 0 and precision", <<fieldName>>)
         ELSE Valid
    [] column.type \in {"Array", "LowCardinality"} ->
         IF column.elementType = ""
         THEN Invalid("requires elementType", <<fieldName>>)
         ELSE Valid
    [] column.type \in {"Enum8", "Enum16"} ->
         IF column.enumValues = 0
         THEN Invalid("Enum requires enumValues", <<fieldName>>)
         ELSE IF column.enumValues
                   > (IF column.type = "Enum8" THEN MaxEnum8 ELSE MaxEnum16)
         THEN Invalid("too many enum values", <<fieldName>>)
         ELSE Valid
    [] OTHER -> Valid

\* validateColumnDefinition(fieldName, column)
validateColumnDefinition(fieldName, column) ==
  IF column.type = ""
  THEN Invalid("Column is missing type", <<fieldName>>)
  ELSE IF ~isValidIdentifier(fieldName)
  THEN Invalid("Invalid field name", <<fieldName>>)
  ELSE IF ~validateColumnType(fieldName, column).ok
  THEN validateColumnType(fieldName, column)
  ELSE IF column.primaryKey /\ column.nullable
  THEN Invalid("Primary key column cannot be nullable", <<fieldName>>)
  ELSE IF column.autoIncrement /\ column.type \notin IntegerTypes
  THEN Invalid("Auto increment is only supported for integer types", <<fieldName>>)
  ELSE Valid

\* A schema definition is the sequence of its entries <<field, column>>, in
\* the order of Object.keys.
fieldsOf(schema) == [i \in DOMAIN schema |-> schema[i][1]]
isPrimaryKey(entry) == entry[2].primaryKey
primaryKeysOf(schema) == fieldsOf(SelectSeq(schema, isPrimaryKey))

\* the loop of validateSchema over the columns: the first error
RECURSIVE validateColumns(_)
validateColumns(schema) ==
  IF schema = <<>> THEN Valid
  ELSE IF ~validateColumnDefinition(schema[1][1], schema[1][2]).ok
  THEN validateColumnDefinition(schema[1][1], schema[1][2])
  ELSE validateColumns(Tail(schema))

\* validateSchema(schema)
validateSchema(schema) ==
  IF Len(schema) = 0
  THEN Invalid("Schema must have at least one field", <<>>)
  ELSE IF Len(primaryKeysOf(schema)) > 1
  THEN Invalid("Multiple primary keys found", primaryKeysOf(schema))
  ELSE validateColumns(schema)

\* validateTableName(tableName)
validateTableName(tableName) ==
  IF tableName = ""
  THEN Invalid("Table name must be a non-empty string", <<>>)
  ELSE IF ~isValidIdentifier(tableName)
  THEN Invalid("Invalid table name", <<>>)
  ELSE IF Len(Chars(tableName)) > MaxTableName
  THEN Invalid("Table name is too long", <<>>)
  ELSE Valid

\* ------------------------------------------------------------------------
\* Numbers too large to count.  A number or bigint whose cls is not "" is
\* counted from the power of two that cls names: cls "2^53" and h = -2 is
\* 2^53 - 1.  "NaN" is the number NaN.  The offsets are small, so the
\* order of two values is the order of their powers, then of their offsets.
\* ------------------------------------------------------------------------
At(power, n) == Val("number", power, 2 * n, "", <<>>)
BigAt(power, n) == Val("bigint", power, 2 * n, "", <<>>)
NaN == Val("number", "NaN", 0, "", <<>>)

rank(power) ==
  CASE power = "-2^53" -> -3
    [] power = "-2^31" -> -1
    [] power = "" -> 0
    [] power = "2^31" -> 1
    [] power = "2^32" -> 2
    [] power = "2^53" -> 3

\* v <= w and v >= w of two numbers or bigints, neither of them NaN
le(v, w) == rank(v.cls) < rank(w.cls) \/ (v.cls = w.cls /\ v.h <= w.h)
ge(v, w) == le(w, v)

\* Number.MAX_SAFE_INTEGER and Number.MIN_SAFE_INTEGER
MAX_SAFE_INTEGER == At("2^53", -1)
MIN_SAFE_INTEGER == At("-2^53", 1)

\* the double nearest to an integer: beyond 2^53 the doubles are the even
\* integers, and an odd one goes to the neighbour with an even mantissa
nearestDouble(power, h) ==
  IF (power = "2^53" /\ h > 0 /\ (h \div 2) % 2 = 1)
     \/ (power = "-2^53" /\ h < 0 /\ (h \div 2) % 2 = 1)
  THEN IF ((h \div 2) + 1) % 4 = 0 THEN h + 2 ELSE h - 2
  ELSE h

\* ------------------------------------------------------------------------
\* The texts of values.  A decimal numeral of a large integer is written
\* with the name of its power, as in "2^53+1"; an ISO date is written "T"
\* and its time value.
\* ------------------------------------------------------------------------
\* the decimal numeral of the integer h / 2 counted from power
numeral(power, h) ==
  IF power = "" THEN ToString(h \div 2)
  ELSE IF h >= 0 THEN power \o "+" \o ToString(h \div 2)
  ELSE power \o ToString(h \div 2)

\* Date.prototype.toISOString of the time value t.  The time values are
\* not negative here: -1 is the time value of an Invalid Date.
toISOString(t) == "T" \o ToString(t)

\* the largest offset of a numeral and the largest time value that is read
\* back from a text
MaxOffset == 4
MaxTime == 2

Powers == {"-2^53", "-2^31", "", "2^31", "2^32", "2^53"}
Offsets == {2 * n : n \in -MaxOffset .. MaxOffset}
Times == 0 .. MaxTime

\* String(value)
RECURSIVE String(_)
commaJoin(items, i) == IF i = 1 THEN "" ELSE ","
RECURSIVE joinItems(_, _)
joinItems(items, i) ==
  IF i > Len(items) THEN ""
  ELSE commaJoin(items, i) \o String(items[i]) \o joinItems(items, i + 1)
String(value) ==
  CASE value.type = "null" -> "null"
    [] value.type = "undefined" -> "undefined"
    [] value.type = "string" -> value.s
    [] value.type = "boolean" -> (IF value.h = 1 THEN "true" ELSE "false")
    [] value.type = "bigint" -> numeral(value.cls, value.h)
    [] value.type = "number" ->
         (IF value.cls = "NaN" THEN "NaN"
          ELSE IF value.h % 2 = 0 THEN numeral(value.cls, value.h)
          ELSE IF value.h > 0 THEN ToString(value.h \div 2) \o ".5"
          ELSE "-" \o ToString((0 - value.h) \div 2) \o ".5")
    [] value.cls = "Date" -> "Date " \o toISOString(value.h)
    [] value.cls = "Array" -> joinItems(value.items, 1)
    [] OTHER -> "[object Object]"

\* the integer that a decimal numeral writes, as <<power, h>>, or <<>>
readNumeral(text) ==
  LET written == {<<p, h>> \in Powers \X Offsets : numeral(p, h) = text}
  IN IF written = {} THEN <<>> ELSE CHOOSE w \in written : TRUE

\* Date.parse(text) of an ISO text: the time value, or -1 for NaN
parseDate(text) ==
  LET written == {t \in Times : toISOString(t) = text}
  IN IF written = {} THEN -1 ELSE CHOOSE t \in written : TRUE

\* new Date(value) of a text, of a boolean or of a number that is counted
\* from zero and not negative: its time value
newDate(value) ==
  CASE value.type = "number" -> (IF value.cls = "NaN" THEN -1 ELSE value.h \div 2)
    [] value.type = "boolean" -> value.h
    [] OTHER -> parseDate(String(value))

\* the length of a text: an ISO date has 24 characters
textLength(text) ==
  CASE text = "" -> 0
    [] parseDate(text) >= 0 -> 24
    [] text \in {"v1", "v2", "v9"} -> 2
    [] OTHER -> Len(Chars(text))

\* Number(value)
Number(value) ==
  CASE value.type = "number" -> value
    [] value.type = "bigint" ->
         Val("number", value.cls, nearestDouble(value.cls, value.h), "", <<>>)
    [] value.type = "boolean" -> Val("number", "", 2 * value.h, "", <<>>)
    [] value.type = "null" -> Num(0)
    [] value.type = "undefined" -> NaN
    [] value.cls = "Date" ->
         (IF value.h < 0 THEN NaN ELSE Val("number", "", 2 * value.h, "", <<>>))
    [] OTHER ->
         (IF String(value) = "" THEN Num(0)
          ELSE IF readNumeral(String(value)) = <<>> THEN NaN
          ELSE Val("number", readNumeral(String(value))[1],
                   nearestDouble(readNumeral(String(value))[1],
                                 readNumeral(String(value))[2]), "", <<>>))

\* Boolean(value)
Boolean(value) == Bool(Truthy(value))

\* what a call of the validator or of the type mapper returned or threw
Return(value) == [threw |-> "", field |-> "", value |-> value]
Raise(error, field) == [threw |-> error, field |-> field, value |-> Undef]

\* BigInt(value)
BigInt(value) ==
  CASE value.type = "bigint" -> Return(value)
    [] value.type = "number" ->
         (IF value.cls = "NaN" \/ value.h % 2 # 0
          THEN Raise("RangeError", "")
          ELSE Return(Val("bigint", value.cls, value.h, "", <<>>)))
    [] value.type = "boolean" -> Return(Val("bigint", "", 2 * value.h, "", <<>>))
    [] value.type \in {"null", "undefined"} -> Raise("TypeError", "")
    [] OTHER ->
         (IF String(value) = "" THEN Return(Big(0))
          ELSE IF readNumeral(String(value)) = <<>> THEN Raise("SyntaxError", "")
          ELSE Return(Val("bigint", readNumeral(String(value))[1],
                          readNumeral(String(value))[2], "", <<>>)))

\* JSON.stringify(value) of a value that holds no bigint; a member that is
\* undefined is left out of an object and is null in an array
RECURSIVE stringify(_)
RECURSIVE stringifyItems(_, _, _)
stringifyItems(items, i, first) ==
  IF i > Len(items) THEN ""
  ELSE (IF first THEN "" ELSE ",")
       \o (IF items[i].type = "undefined" THEN "null" ELSE stringify(items[i]))
       \o stringifyItems(items, i + 1, FALSE)
RECURSIVE stringifyEntries(_, _, _)
stringifyEntries(entries, i, first) ==
  IF i > Len(entries) THEN ""
  ELSE IF entries[i][2].type = "undefined"
  THEN stringifyEntries(entries, i + 1, first)
  ELSE (IF first THEN "" ELSE ",")
       \o "\"" \o entries[i][1] \o "\":" \o stringify(entries[i][2])
       \o stringifyEntries(entries, i + 1, FALSE)
stringify(value) ==
  CASE value.type = "null" -> "null"
    [] value.type = "string" -> "\"" \o value.s \o "\""
    [] value.type = "boolean" -> String(value)
    [] value.type = "number" -> (IF value.cls = "NaN" THEN "null" ELSE String(value))
    [] value.cls = "Date" -> "\"" \o toISOString(value.h) \o "\""
    [] value.cls = "Array" -> "[" \o stringifyItems(value.items, 1, TRUE) \o "]"
    [] OTHER -> "{" \o stringifyEntries(value.items, 1, TRUE) \o "}"

\* JSON.stringify throws a TypeError on a bigint
RECURSIVE holdsBigInt(_)
holdsBigInt(value) ==
  \/ value.type = "bigint"
  \/ \E i \in DOMAIN value.items :
       holdsBigInt(IF value.cls = "Array" THEN value.items[i] ELSE value.items[i][2])

\* the values that a JSON text of the texts read back can write
JsonScalars == {Null, Num(1), Half(3), Str("a"), Str(toISOString(0)), Bool(TRUE)}
JsonValues ==
  JsonScalars
  \cup {Arr(<<>>)} \cup {Arr(<<v>>) : v \in JsonScalars}
  \cup {Obj(<<>>)} \cup {Obj(<<<<"a", v>>>>) : v \in JsonScalars}
  \cup {Obj(<<<<"a", v>>, <<"b", w>>>>) : v \in {Num(1)}, w \in JsonScalars}

\* a mutation of JSON.parse: the text comes back as it is
parse_Unread(text) == Return(Str(text))
\* JSON.parse(text)
parse(text) ==
  LET written == {v \in JsonValues : stringify(v) = text}
  IN IF written = {} THEN Raise("SyntaxError", "")
     ELSE Return(CHOOSE v \in written : TRUE)

\* ------------------------------------------------------------------------
\* The type mapper (src/utils/type-mapper.ts)
\* ------------------------------------------------------------------------
NumberTypes ==
  {"UInt8", "UInt16", "UInt32", "Int8", "Int16", "Int32",
   "Float32", "Float64", "Decimal"}
WideTypes == {"UInt64", "Int64"}
StringTypes == {"String", "FixedString", "UUID", "IPv4", "IPv6"}
DateTypes == {"Date", "Date32", "DateTime", "DateTime64"}
EnumTypes == {"Enum8", "Enum16"}
JsonTypes == {"JSON", "Map"}

\* 'v1' = 1, 'v2' = 2, ... : the values of an enumeration, and its members
enumName(i) == "v" \o ToString(i)
RECURSIVE enumDef(_, _)
enumDef(enumValues, i) ==
  IF i > enumValues THEN ""
  ELSE (IF i = 1 THEN "" ELSE ", ")
       \o "'" \o enumName(i) \o "' = " \o ToString(i) \o enumDef(enumValues, i + 1)

\* column.length || 255, column.precision || 10, column.scale || 2,
\* column.precision || 3
orElse(given, otherwise) == IF given = 0 THEN otherwise ELSE given

\* the type string before it is wrapped in Nullable
baseTypeString(column) ==
  CASE column.type = "FixedString" ->
         Return(Str("FixedString(" \o ToString(orElse(column.length, 255)) \o ")"))
    [] column.type = "Decimal" ->
         Return(Str("Decimal(" \o ToString(orElse(column.precision, 10)) \o ", "
                    \o ToString(orElse(column.scale, 2)) \o ")"))
    [] column.type = "DateTime64" ->
         Return(Str("DateTime64(" \o ToString(orElse(column.precision, 3)) \o ")"))
    [] column.type = "Array" ->
         (IF column.elementType = ""
          THEN Raise("TypeMappingError", "Array type requires elementType")
          ELSE Return(Str("Array(" \o column.elementType \o ")")))
    [] column.type = "LowCardinality" ->
         (IF column.elementType = ""
          THEN Raise("TypeMappingError", "LowCardinality type requires elementType")
          ELSE Return(Str("LowCardinality(" \o column.elementType \o ")")))
    [] column.type \in EnumTypes ->
         (IF column.enumValues = 0
          THEN Raise("TypeMappingError", "Enum type requires enumValues")
          ELSE Return(Str(column.type \o "(" \o enumDef(column.enumValues, 1) \o ")")))
    [] OTHER -> Return(Str(column.type))

\* getClickHouseType(column)
wrapNullable(column, typeStr) ==
  IF typeStr.threw # "" THEN typeStr
  ELSE IF column.nullable THEN Return(Str("Nullable(" \o typeStr.value.s \o ")"))
  ELSE typeStr
getClickHouseType(column) == wrapNullable(column, baseTypeString(column))

\* toClickHouseValue(value, dataType)
toClickHouseValue(value, dataType) ==
  CASE value.type \in {"null", "undefined"} -> Return(Null)
    [] dataType \in NumberTypes -> Return(Number(value))
    [] dataType \in WideTypes -> BigInt(value)
    [] dataType = "Boolean" -> Return(Boolean(value))
    [] dataType \in StringTypes -> Return(Str(String(value)))
    [] dataType \in DateTypes ->
         (IF value.cls = "Date"
          THEN IF value.h < 0 THEN Raise("RangeError", "")
               ELSE Return(Str(toISOString(value.h)))
          ELSE IF value.type = "bigint" THEN Raise("TypeError", "")
          ELSE IF newDate(value) < 0 THEN Raise("RangeError", "")
          ELSE Return(Str(toISOString(newDate(value)))))
    [] dataType = "Array" ->
         (IF value.cls # "Array" THEN Raise("TypeMappingError", "Expected array value")
          ELSE Return(value))
    [] dataType \in JsonTypes ->
         (IF value.type # "object"
          THEN Raise("TypeMappingError", "Expected object value")
          ELSE IF holdsBigInt(value) THEN Raise("TypeError", "")
          ELSE Return(Str(stringify(value))))
    [] OTHER -> Return(value)

\* the 64-bit branch of fromClickHouseValue, after BigInt(value)
fromWide_AlwaysNumber(bigintVal) ==
  IF bigintVal.threw # "" THEN bigintVal ELSE Return(Number(bigintVal.value))
fromWide(bigintVal) ==
  IF bigintVal.threw # "" THEN bigintVal
  ELSE IF le(bigintVal.value, MAX_SAFE_INTEGER) /\ ge(bigintVal.value, MIN_SAFE_INTEGER)
  THEN Return(Number(bigintVal.value))
  ELSE bigintVal

\* fromClickHouseValue(value, dataType)
fromClickHouseValue(value, dataType) ==
  CASE value.type \in {"null", "undefined"} -> Return(Null)
    [] dataType \in NumberTypes -> Return(Number(value))
    [] dataType \in WideTypes -> fromWide(BigInt(value))
    [] dataType = "Boolean" -> Return(Boolean(value))
    [] dataType \in StringTypes \cup EnumTypes -> Return(Str(String(value)))
    [] dataType \in DateTypes ->
         (IF value.cls = "Date" THEN Return(value)
          ELSE IF value.type = "bigint" THEN Raise("TypeError", "")
          ELSE Return(DateV(newDate(value))))
    [] dataType = "Array" ->
         (IF value.cls # "Array"
          THEN Raise("TypeMappingError", "Expected array value from ClickHouse")
          ELSE Return(value))
    [] dataType \in JsonTypes ->
         (IF value.type = "string" THEN parse(value.s) ELSE Return(value))
    [] OTHER -> Return(value)

\* isInteger(value)
isInteger(value) ==
  value.type = "number" /\ value.cls # "NaN" /\ value.h % 2 = 0

\* the members of column.enumValues
includes(enumValues, text) == \E i \in 1 .. enumValues : enumName(i) = text

\* a mutation of the null test of validateValue: a null is never accepted
nullValue_AlwaysRaises(value, column) ==
  Raise("TypeMappingError", "Value cannot be null for non-nullable column")
nullValue(value, column) ==
  IF ~column.nullable
  THEN Raise("TypeMappingError", "Value cannot be null for non-nullable column")
  ELSE Return(Bool(TRUE))

\* validateValue(value, column)
validateValue(value, column) ==
  CASE value.type \in {"null", "undefined"} -> nullValue(value, column)
    [] column.type = "UInt8" ->
         Return(Bool(isInteger(value) /\ ge(Number(value), Num(0))
                     /\ le(Number(value), Num(255))))
    [] column.type = "UInt16" ->
         Return(Bool(isInteger(value) /\ ge(Number(value), Num(0))
                     /\ le(Number(value), Num(65535))))
    [] column.type = "UInt32" ->
         Return(Bool(isInteger(value) /\ ge(Number(value), Num(0))
                     /\ le(Number(value), At("2^32", -1))))
    [] column.type = "Int8" ->
         Return(Bool(isInteger(value) /\ ge(Number(value), Num(-128))
                     /\ le(Number(value), Num(127))))
    [] column.type = "Int16" ->
         Return(Bool(isInteger(value) /\ ge(Number(value), Num(-32768))
                     /\ le(Number(value), Num(32767))))
    [] column.type = "Int32" ->
         Return(Bool(isInteger(value) /\ ge(Number(value), At("-2^31", 0))
                     /\ le(Number(value), At("2^31", -1))))
    [] column.type \in {"Float32", "Float64", "Decimal"} ->
         Return(Bool(value.type = "number" /\ value.cls # "NaN"))
    [] column.type \in WideTypes ->
         Return(Bool(value.type \in {"bigint", "number"}))
    [] column.type = "Boolean" -> Return(Bool(value.type = "boolean"))
    [] column.type \in StringTypes ->
         (IF value.type # "string" THEN Return(Bool(FALSE))
          ELSE IF column.type = "FixedString" /\ column.length # 0
          THEN Return(Bool(textLength(value.s) <= column.length))
          ELSE Return(Bool(TRUE)))
    [] column.type \in DateTypes ->
         Return(Bool(value.cls = "Date" \/ parseDate(String(value)) >= 0))
    [] column.type = "Array" -> Return(Bool(value.cls = "Array"))
    [] column.type \in JsonTypes -> Return(Bool(value.type = "object"))
    [] column.type \in EnumTypes ->
         (IF value.type # "string" THEN Return(Bool(FALSE))
          ELSE IF column.enumDeclared
          THEN Return(Bool(includes(column.enumValues, value.s)))
          ELSE Return(Bool(TRUE)))
    [] OTHER -> Return(Bool(TRUE))

\* ------------------------------------------------------------------------
\* Validation of a record against a schema (src/utils/validator.ts)
\* ------------------------------------------------------------------------
\* the first field of the record that the schema does not have, or 0
unknownField(data, schema) ==
  LET unknown == {i \in DOMAIN data.items :
                    \A j \in DOMAIN schema : schema[j][1] # data.items[i][1]}
  IN IF unknown = {} THEN 0
     ELSE CHOOSE i \in unknown : \A j \in unknown : i <= j

\* data[fieldName]
read(data, fieldName) ==
  IF HasKey(data, fieldName) THEN Get(data, fieldName) ELSE Undef

\* the column of a field of the schema
columnOf(schema, fieldName) ==
  schema[CHOOSE j \in DOMAIN schema : schema[j][1] = fieldName][2]

\* a mutation of the test of a required field: a primary key is exempt
isRequired_PrimaryKeyExempt(column) ==
  ~column.nullable /\ ~column.hasDefault /\ ~column.autoIncrement
  /\ ~column.primaryKey
\* !column.nullable && column.default === undefined && !column.autoIncrement
isRequired(column) ==
  ~column.nullable /\ ~column.hasDefault /\ ~column.autoIncrement

\* the type validation of one value of a record
typeValidation(fieldName, validated) ==
  IF validated.threw # "" THEN validated
  ELSE IF ~Truthy(validated.value) THEN Raise("type", fieldName)
  ELSE Return(Undef)

\* one turn of the loop of validateData over the columns of the schema
validateField(fieldName, column, value) ==
  IF value.type \in {"undefined", "null"}
  THEN IF isRequired(column) THEN Raise("required", fieldName) ELSE Return(Undef)
  ELSE typeValidation(fieldName, validateValue(value, column))

RECURSIVE validateFields(_, _, _)
validateFields(data, schema, i) ==
  IF i > Len(schema) THEN Return(Undef)
  ELSE IF validateField(schema[i][1], schema[i][2], read(data, schema[i][1])).threw # ""
  THEN validateField(schema[i][1], schema[i][2], read(data, schema[i][1]))
  ELSE validateFields(data, schema, i + 1)

\* validateData(data, schema)
validateData(data, schema) ==
  IF unknownField(data, schema) # 0
  THEN Raise("Unknown field", data.items[unknownField(data, schema)][1])
  ELSE validateFields(data, schema, 1)

\* a mutation of the test of a provided field: a null primary key is let by
isRestricted_UnlessNull(column, value) ==
  column.primaryKey /\ value.type \notin {"undefined", "null"}
\* primary key updates are restricted
isRestricted(column, value) == column.primaryKey

\* one turn of the loop of validatePartialData over the entries of the record
validateProvided(fieldName, column, value) ==
  IF isRestricted(column, value) THEN Raise("primaryKey", fieldName)
  ELSE IF value.type \notin {"null", "undefined"}
  THEN typeValidation(fieldName, validateValue(value, column))
  ELSE Return(Undef)

RECURSIVE validateEntries(_, _, _)
validateEntries(data, schema, i) ==
  IF i > Len(data.items) THEN Return(Undef)
  ELSE IF validateProvided(data.items[i][1], columnOf(schema, data.items[i][1]),
                           data.items[i][2]).threw # ""
  THEN validateProvided(data.items[i][1], columnOf(schema, data.items[i][1]),
                        data.items[i][2])
  ELSE validateEntries(data, schema, i + 1)

\* validatePartialData(data, schema)
validatePartialData(data, schema) ==
  IF unknownField(data, schema) # 0
  THEN Raise("Unknown field", data.items[unknownField(data, schema)][1])
  ELSE validateEntries(data, schema, 1)

\* ------------------------------------------------------------------------
\* TableSchema and SchemaBuilder (src/core/schema.ts)
\* ------------------------------------------------------------------------
\* largest number of TableSchema objects
MaxSchemas == 2

\* name in schema
hasField(schema, name) == \E i \in DOMAIN schema : schema[i][1] = name

\* schema[name] = column: in place for a field that is there, else at the end
setField(schema, name, column) ==
  IF hasField(schema, name)
  THEN [i \in DOMAIN schema |->
          IF schema[i][1] = name THEN <<name, column>> ELSE schema[i]]
  ELSE Append(schema, <<name, column>>)

\* delete schema[name]
deleteField(schema, name) ==
  LET isOther(entry) == entry[1] # name IN SelectSeq(schema, isOther)

\* schema[name], for a field that is there
getField(schema, name) ==
  schema[CHOOSE i \in DOMAIN schema : schema[i][1] = name][2]

\* {...a, ...b}
RECURSIVE spreadSchema(_, _)
spreadSchema(a, b) ==
  IF b = <<>> THEN a
  ELSE spreadSchema(setField(a, b[1][1], b[1][2]), Tail(b))

\* {...currentDef, ...definition}, definition a function from some of the
\* properties of a column to their values
spreadColumn(currentDef, definition) ==
  [k \in DOMAIN currentDef |->
     IF k \in DOMAIN definition THEN definition[k] ELSE currentDef[k]]

\* the TableSchema that the constructor makes of a name and of the schema
\* definition at address ref, once both are validated: the schema is kept
\* by reference, the column names and the primary key are computed once
TableSchema(name, ref, schema) ==
  [name |-> name, schema |-> ref, columnNames |-> fieldsOf(schema),
   primaryKeyColumn |->
     IF Len(primaryKeysOf(schema)) > 0 THEN primaryKeysOf(schema)[1] ELSE ""]

\* the checks of the constructor, in their order
validateConstructor(name, schema) ==
  IF ~validateTableName(name).ok THEN validateTableName(name)
  ELSE validateSchema(schema)

\* A mutation of getRequiredColumns: an autoIncrement column is required.
getRequiredColumns_AutoIncrementToo(schema) ==
  fieldsOf(SelectSeq(schema,
                     LAMBDA e : /\ ~e[2].nullable
                                /\ ~e[2].hasDefault
                                /\ ~e[2].primaryKey))
\* getRequiredColumns() of a TableSchema of this schema definition
getRequiredColumns(schema) ==
  fieldsOf(SelectSeq(schema,
                     LAMBDA e : /\ ~e[2].nullable
                                /\ ~e[2].hasDefault
                                /\ ~e[2].autoIncrement
                                /\ ~e[2].primaryKey))

\* getOptionalColumns()
getOptionalColumns(schema) ==
  fieldsOf(SelectSeq(schema,
                     LAMBDA e : e[2].nullable \/ e[2].hasDefault \/ e[2].autoIncrement))

\* hasColumn(name)
hasColumn(schema, name) == \E j \in DOMAIN schema : schema[j][1] = name

\* TableSchema.validate(data), data an object.  The first loop: the first
\* required column that the record does not have or has as undefined
missingRequired(data, required) ==
  SelectSeq(required,
            LAMBDA name : ~HasKey(data, name) \/ Get(data, name).type = "undefined")
\* the second loop, from the entry i of the record on: an unknown field,
\* or null or undefined for a column that is not nullable and has no
\* default; the values are not looked at otherwise
RECURSIVE validateRecord(_, _, _)
validateRecord(data, schema, i) ==
  IF i > Len(data.items) THEN Return(Bool(TRUE))
  ELSE IF ~hasColumn(schema, data.items[i][1])
  THEN Raise("SchemaError", data.items[i][1])
  ELSE IF /\ data.items[i][2].type \in {"null", "undefined"}
          /\ ~getField(schema, data.items[i][1]).nullable
          /\ ~getField(schema, data.items[i][1]).hasDefault
  THEN Raise("SchemaError", data.items[i][1])
  ELSE validateRecord(data, schema, i + 1)
validate(data, schema) ==
  IF missingRequired(data, getRequiredColumns(schema)) # <<>>
  THEN Raise("SchemaError", missingRequired(data, getRequiredColumns(schema))[1])
  ELSE validateRecord(data, schema, 1)

\* what a TableSchema shows: getColumnNames(), getColumns(), getPrimaryKey()
Shown(t, objs) ==
  [name |-> t.name, columnNames |-> t.columnNames, columns |-> objs[t.schema],
   primaryKey |-> t.primaryKeyColumn]

\* the schema definition of the SchemaBuilder is the object at this address
builderColumns == 1

SchemaCall(op, receiver, v) ==
  [op |-> op, receiver |-> receiver, ok |-> v.ok, error |-> v.error,
   fields |-> v.fields]

\* new SchemaBuilder(), and no TableSchema yet
InitSchema ==
  /\ objects = <<<<>>>>
  /\ schemas = <<>>
  /\ constructed = <<>>
  /\ schemaCall = SchemaCall("new", 0, Valid)

\* new TableSchema(name, schema), schema the object at address ref of the
\* heap objs, v what the validation says
constructorDone(op, receiver, name, ref, objs, v) ==
  /\ schemaCall' = SchemaCall(op, receiver, v)
  /\ IF v.ok
     THEN /\ objects' = objs
          /\ schemas' = Append(schemas, TableSchema(name, ref, objs[ref]))
          /\ constructed' =
               Append(constructed, Shown(TableSchema(name, ref, objs[ref]), objs))
     ELSE UNCHANGED <<objects, schemas, constructed>>
  /\ UNCHANGED notSchemaVars

constructor(op, receiver, name, ref, objs) ==
  constructorDone(op, receiver, name, ref, objs,
                  validateConstructor(name, objs[ref]))

\* a call that throws before it constructs anything
throws(op, receiver, v) ==
  /\ schemaCall' = SchemaCall(op, receiver, v)
  /\ UNCHANGED <<objects, schemas, constructed, notSchemaVars>>

\* ------------------------------------------------------------------------
\* Schemas: the calls
\* ------------------------------------------------------------------------
\* the columns, the fields and the names that the caller passes
Pk == Column("Int32", TRUE, FALSE, FALSE)
Text == Column("String", FALSE, FALSE, FALSE)
Serial == Column("UInt64", TRUE, FALSE, TRUE)
NullablePk == Column("Int32", TRUE, TRUE, FALSE)
AutoText == Column("String", FALSE, FALSE, TRUE)
NoType == Column("", FALSE, FALSE, FALSE)
Fixed(length) == [Column("FixedString", FALSE, FALSE, FALSE) EXCEPT !.length = length]
Decimal(precision, scale) ==
  [Column("Decimal", FALSE, FALSE, FALSE) EXCEPT
     !.precision = precision, !.hasScale = TRUE, !.scale = scale]
ArrayOf(elementType) ==
  [Column("Array", FALSE, FALSE, FALSE) EXCEPT !.elementType = elementType]
Enum8(enumValues) ==
  [Column("Enum8", FALSE, FALSE, FALSE) EXCEPT
     !.enumValues = enumValues, !.enumDeclared = TRUE]

Columns == {Pk, Text, NullablePk, AutoText}
FieldNames == {"id", "name", "a b"}
TableNames ==
  {"users", "", "9a",
   "ttttttttttttttttttttttttttttttttttttttttttttttttttttttttttttttttt"}

\* the schema definitions that the caller writes
SchemaLiterals ==
  {<<>>,
   <<<<"id", Pk>>>>,
   <<<<"name", Text>>>>,
   <<<<"id", Pk>>, <<"name", Text>>>>,
   <<<<"id", Pk>>, <<"name", Serial>>>>,
   <<<<"id", NullablePk>>>>,
   <<<<"a b", Text>>>>,
   <<<<"id", Pk>>, <<"name", NoType>>>>,
   <<<<"id", Fixed(0)>>>>,
   <<<<"id", Fixed(8)>>, <<"name", Decimal(10, 2)>>>>,
   <<<<"id", Decimal(10, 12)>>>>,
   <<<<"id", Decimal(0, 0)>>>>,
   <<<<"id", ArrayOf("")>>>>,
   <<<<"id", ArrayOf("String")>>, <<"name", Enum8(2)>>>>,
   <<<<"id", Enum8(0)>>>>,
   <<<<"id", Enum8(MaxEnum8 + 1)>>>>}

\* the arguments of the constructor: every schema definition under a good
\* name, and every name with a good schema definition
ConstructorInputs ==
  ({"users"} \X SchemaLiterals) \cup (TableNames \X {<<<<"id", Pk>>>>})

\* the modifications given to clone, and the changes given to modifyColumn
Modifications == {<<>>, <<<<"name", Serial>>>>, <<<<"name", Text>>>>}
Changes ==
  {[primaryKey |-> TRUE], [nullable |-> TRUE], [type |-> "String"],
   [autoIncrement |-> TRUE]}

\* new TableSchema(name, schema) with a schema definition just written
Construct ==
  \E input \in ConstructorInputs :
    /\ Len(schemas) < MaxSchemas
    /\ constructor("constructor", 0, input[1], Len(objects) + 1,
                   Append(objects, input[2]))

\* defineSchema(name, schema)
DefineSchema ==
  \E input \in ConstructorInputs :
    /\ Len(schemas) < MaxSchemas
    /\ constructor("defineSchema", 0, input[1], Len(objects) + 1,
                   Append(objects, input[2]))

\* TableSchema.fromJSON(schemas[i].toJSON()): toJSON gives the schema
\* definition itself
FromJSON ==
  \E i \in DOMAIN schemas :
    /\ Len(schemas) < MaxSchemas
    /\ constructor("fromJSON", i, schemas[i].name, schemas[i].schema, objects)

\* schemas[i].clone(modifications)
Clone ==
  \E i \in DOMAIN schemas, modifications \in Modifications :
    /\ Len(schemas) < MaxSchemas
    /\ constructor("clone", i, schemas[i].name, Len(objects) + 1,
                   Append(objects,
                          spreadSchema(objects[schemas[i].schema], modifications)))

\* schemas[i].addColumn(name, definition), v what validateColumnDefinition says
addColumn(i, name, definition, v) ==
  IF hasField(objects[schemas[i].schema], name)
  THEN throws("addColumn", i, Invalid("Column already exists", <<name>>))
  ELSE IF ~v.ok THEN throws("addColumn", i, v)
  ELSE constructor("addColumn", i, schemas[i].name, Len(objects) + 1,
                   Append(objects,
                          setField(objects[schemas[i].schema], name, definition)))

AddColumn ==
  \E i \in DOMAIN schemas, name \in FieldNames, definition \in Columns :
    /\ Len(schemas) < MaxSchemas
    /\ addColumn(i, name, definition, validateColumnDefinition(name, definition))

\* schemas[i].removeColumn(name)
RemoveColumn ==
  \E i \in DOMAIN schemas, name \in FieldNames :
    /\ Len(schemas) < MaxSchemas
    /\ IF ~hasField(objects[schemas[i].schema], name)
       THEN throws("removeColumn", i, Invalid("Column does not exist", <<name>>))
       ELSE constructor("removeColumn", i, schemas[i].name, Len(objects) + 1,
                        Append(objects,
                               deleteField(objects[schemas[i].schema], name)))

\* schemas[i].modifyColumn(name, definition), newDef the merged definition
\* and v what validateColumnDefinition says of it
modifyColumn(i, name, newDef, v) ==
  IF ~v.ok THEN throws("modifyColumn", i, v)
  ELSE constructor("modifyColumn", i, schemas[i].name, Len(objects) + 1,
                   Append(objects,
                          setField(objects[schemas[i].schema], name, newDef)))

modifyColumnMerged(i, name, newDef) ==
  modifyColumn(i, name, newDef, validateColumnDefinition(name, newDef))

ModifyColumn ==
  \E i \in DOMAIN schemas, name \in FieldNames, definition \in Changes :
    /\ Len(schemas) < MaxSchemas
    /\ IF ~hasField(objects[schemas[i].schema], name)
       THEN throws("modifyColumn", i, Invalid("Column does not exist", <<name>>))
       ELSE modifyColumnMerged(i, name,
              spreadColumn(getField(objects[schemas[i].schema], name), definition))

\* builder.column(name, definition), and int, string, ... which call it; v
\* what validateColumnDefinition says
column(name, definition, v) ==
  IF ~v.ok THEN throws("column", 0, v)
  ELSE /\ objects' = [objects EXCEPT ![builderColumns] = setField(@, name, definition)]
       /\ schemaCall' = SchemaCall("column", 0, v)
       /\ UNCHANGED <<schemas, constructed, notSchemaVars>>

BuilderColumn ==
  \E name \in FieldNames, definition \in Columns :
    column(name, definition, validateColumnDefinition(name, definition))

\* builder.build(tableName)
BuilderBuild ==
  \E tableName \in TableNames :
    /\ Len(schemas) < MaxSchemas
    /\ constructor("build", 0, tableName, builderColumns, objects)

NextSchema ==
  \/ Construct \/ DefineSchema \/ FromJSON \/ Clone \/ AddColumn \/ RemoveColumn
  \/ ModifyColumn \/ BuilderColumn \/ BuilderBuild

\* ------------------------------------------------------------------------
\* The calls of the validator and of the type mapper
\* ------------------------------------------------------------------------
\* the most fields of a schema that validates a record
MaxFields == 2

DataTypes ==
  {"UInt8", "UInt16", "UInt32", "UInt64", "Int8", "Int16", "Int32", "Int64",
   "Float32", "Float64", "Decimal", "String", "FixedString", "Date", "Date32",
   "DateTime", "DateTime64", "Boolean", "UUID", "Enum8", "Enum16", "Array",
   "Tuple", "Map", "Nested", "JSON", "Nullable", "LowCardinality", "IPv4", "IPv6"}

\* the column definitions that are converted and validated against
Bare(type) == Column(type, FALSE, FALSE, FALSE)
Parameterized ==
  {Fixed(3), Fixed(4), Decimal(5, 1), Decimal(5, 0), Decimal(5, 5),
   [Bare("Decimal") EXCEPT !.precision = 5],
   [Bare("DateTime64") EXCEPT !.precision = 6],
   ArrayOf("String"),
   [Bare("LowCardinality") EXCEPT !.elementType = "String"],
   Enum8(0), Enum8(2),
   [Enum8(0) EXCEPT !.type = "Enum16"], [Enum8(2) EXCEPT !.type = "Enum16"]}
TypedColumns ==
  {[c EXCEPT !.nullable = n] :
     c \in {Bare(type) : type \in DataTypes} \cup Parameterized, n \in BOOLEAN}

\* the numbers that are doubles, and the values given to the functions
Doubles ==
  {Val("number", p, h, "", <<>>) : p \in Powers \ {""}, h \in Offsets}
  \cap {v \in [type : {"number"}, cls : Powers, h : Offsets, s : {""}, items : {<<>>}] :
          nearestDouble(v.cls, v.h) = v.h}
HostValues ==
  {Null, Undef, NaN, Half(3), Big(5), Big(0),
   Num(0), Num(1), Num(-1), Num(127), Num(128), Num(-128), Num(-129),
   Num(255), Num(256), Num(32767), Num(32768), Num(-32768), Num(-32769),
   Num(65535), Num(65536),
   Str(""), Str("name"), Str("v1"), Str("v9"), Str("1"), Str(toISOString(0)),
   Str("{\"a\":1}"),
   Bool(TRUE), Bool(FALSE), DateV(0), DateV(MaxTime), DateV(-1),
   Arr(<<>>), Arr(<<Num(1)>>), Obj(<<>>), Obj(<<Entry("a", Num(1))>>),
   Obj(<<Entry("a", Num(1)), Entry("b", Str("a"))>>),
   Obj(<<Entry("a", DateV(0))>>), Obj(<<Entry("a", Undef)>>),
   Obj(<<Entry("a", Big(5))>>)}
  \cup Doubles
  \cup {BigAt(p, n) : p \in {"-2^53", "2^53"}, n \in -MaxOffset .. MaxOffset}
  \cup {Str(numeral(p, 2 * n)) : p \in {"-2^53", "2^53"}, n \in -1 .. 1}

\* Date.parse and new Date read a text that is not an ISO date by rules
\* that the engine chooses; these are the texts that no engine reads
NeverDates == {"", "name", "NaN", "true", "false", "[object Object]"}
\* the values whose reading as a date every engine agrees on
datesAgree(value) ==
  \/ value.type \in {"null", "undefined", "boolean"}
  \/ value.cls = "Date"
  \/ value.type = "number" /\ (value.cls = "NaN" \/ (value.cls = "" /\ value.h >= 0))
  \/ value.type \in {"string", "object"}
     /\ (parseDate(String(value)) >= 0 \/ String(value) \in NeverDates)
TypeInputs ==
  {<<v, c>> \in HostValues \X TypedColumns :
     c.type \in DateTypes => datesAgree(v)}
MapperInputs ==
  {<<v, c>> \in TypeInputs : c.type \in DateTypes => v.type # "bigint"}
  \cup {<<v, c>> \in HostValues \X TypedColumns :
          c.type \in DateTypes /\ v.type = "bigint"}

\* the schemas that validate a record: fields of different names
Names == <<"id", "name", "age", "active">>
Required == Bare("String")
Optional == Column("String", FALSE, TRUE, FALSE)
Defaulted == [Bare("String") EXCEPT !.hasDefault = TRUE]
Counted == Column("UInt8", FALSE, FALSE, TRUE)
Key == Column("String", TRUE, FALSE, FALSE)
OptionalKey == Column("UInt8", TRUE, TRUE, FALSE)
RecordColumns == {Required, Optional, Defaulted, Counted, Key, OptionalKey}
RecordSchemas ==
  UNION {{[i \in 1 .. n |-> <<Names[i], columns[i]>>] :
            columns \in [1 .. n -> RecordColumns]} : n \in 0 .. MaxFields}

\* the records of the fields of a schema, in its order or in the other
\* one, each field left out or given one of these values
Absent == Val("absent", "", 0, "", <<>>)
Given == {Absent, Undef, Null, Str("name"), Num(1)}
given(schema, values) ==
  SelectSeq([i \in DOMAIN schema |-> <<schema[i][1], values[i]>>],
            LAMBDA e : e[2] # Absent)
reversed(entries) == [i \in DOMAIN entries |-> entries[Len(entries) + 1 - i]]
RecordsOf(schema) ==
  UNION {{Obj(given(schema, values)), Obj(reversed(given(schema, values)))} :
           values \in [DOMAIN schema -> Given]}
\* a record of a field that the schema does not have
Stray(data) == Obj(Append(data.items, Entry("zip", Num(1))))

TypeCall(fn, value, definition, data, schema, out) ==
  [fn |-> fn, value |-> value, column |-> definition, data |-> data,
   schema |-> schema, out |-> out]
NoTypeCall == TypeCall("", Undef, Bare(""), Obj(<<>>), <<>>, Return(Undef))
NoRecord == Obj(<<>>)

\* no call is being made; a call is made when the one before has returned
InitTypes == typeCall = NoTypeCall

\* validateValue(value, column)
ValidateValue ==
  /\ typeCall = NoTypeCall
  /\ \E input \in TypeInputs :
       typeCall' = TypeCall("validateValue", input[1], input[2], NoRecord, <<>>,
                            validateValue(input[1], input[2]))
  /\ UNCHANGED notTypeVars

\* getClickHouseType(column)
GetClickHouseType ==
  /\ typeCall = NoTypeCall
  /\ \E definition \in TypedColumns :
       typeCall' = TypeCall("getClickHouseType", Undef, definition, NoRecord, <<>>,
                            getClickHouseType(definition))
  /\ UNCHANGED notTypeVars

\* toClickHouseValue(value, column.type)
ToClickHouseValue ==
  /\ typeCall = NoTypeCall
  /\ \E input \in MapperInputs :
       typeCall' = TypeCall("toClickHouseValue", input[1], input[2], NoRecord, <<>>,
                            toClickHouseValue(input[1], input[2].type))
  /\ UNCHANGED notTypeVars

\* fromClickHouseValue(value, column.type) of a value that the server sent
FromClickHouseValue ==
  /\ typeCall = NoTypeCall
  /\ \E input \in MapperInputs :
       typeCall' = TypeCall("fromClickHouseValue", input[1], input[2], NoRecord, <<>>,
                            fromClickHouseValue(input[1], input[2].type))
  /\ UNCHANGED notTypeVars

\* fromClickHouseValue(wire, column.type) of the wire value that the last
\* toClickHouseValue(value, column.type) returned; data keeps that wire value
ReadBack ==
  /\ typeCall.fn = "toClickHouseValue"
  /\ typeCall.out.threw = ""
  /\ typeCall' = TypeCall("roundTrip", typeCall.value, typeCall.column,
                          typeCall.out.value, <<>>,
                          fromClickHouseValue(typeCall.out.value, typeCall.column.type))
  /\ UNCHANGED notTypeVars

\* new TableSchema('users', schema), then getRequiredColumns() and
\* getOptionalColumns() of it
GetColumns ==
  /\ typeCall = NoTypeCall
  /\ \E schema \in RecordSchemas :
       typeCall' =
         TypeCall("getColumns", Undef, Bare(""), NoRecord, schema,
                  IF ~validateConstructor("users", schema).ok
                  THEN Raise("ValidationError", "")
                  ELSE Return(Obj(<<Entry("required",
                                          Arr(getRequiredColumns(schema))),
                                    Entry("optional",
                                          Arr(getOptionalColumns(schema)))>>)))
  /\ UNCHANGED notTypeVars

\* validateData(data, schema)
ValidateData ==
  /\ typeCall = NoTypeCall
  /\ \E schema \in RecordSchemas :
       \E record \in RecordsOf(schema) :
         \E data \in {record, Stray(record)} :
           typeCall' = TypeCall("validateData", Undef, Bare(""), data, schema,
                                validateData(data, schema))
  /\ UNCHANGED notTypeVars

\* validatePartialData(data, schema)
ValidatePartialData ==
  /\ typeCall = NoTypeCall
  /\ \E schema \in RecordSchemas :
       \E record \in RecordsOf(schema) :
         \E data \in {record, Stray(record)} :
           typeCall' = TypeCall("validatePartialData", Undef, Bare(""), data, schema,
                                validatePartialData(data, schema))
  /\ UNCHANGED notTypeVars

\* the caller has looked at what the call returned or threw
Returns ==
  /\ typeCall # NoTypeCall
  /\ typeCall' = NoTypeCall
  /\ UNCHANGED notTypeVars

NextTypes ==
  \/ ValidateValue \/ GetClickHouseType \/ ToClickHouseValue
  \/ FromClickHouseValue \/ ReadBack \/ ValidateData \/ ValidatePartialData
  \/ GetColumns \/ Returns

\* ------------------------------------------------------------------------
\* SQLBuilder (utils/sql-builder.ts), as far as update, destroy and create
\* of a Model use it.  Its source is not part of the repository's src/; it
\* is written here from the specification: a statement assembler with
\* positional-to-named parameter translation, the statement shapes
\*   UPDATE <table> SET <col>=<placeholder>,... WHERE ...
\*   DELETE FROM <table> WHERE ...
\*   INSERT INTO <table> (<cols>) VALUES (<placeholders>)
\* and placeholders {paramN:WireType}, paramN the key of the parameter.
\* ------------------------------------------------------------------------
createSQLBuilder ==
  [verb |-> "", table |-> "", fields |-> <<>>, params |-> <<>>,
   hasWhere |-> FALSE, whereSql |-> <<>>]

\* builder.update(table), builder.deleteFrom(table),
\* builder.insertInto(table, fields)
update(builder, table) == [builder EXCEPT !.verb = "UPDATE", !.table = table]
deleteFrom(builder, table) == [builder EXCEPT !.verb = "DELETE", !.table = table]
insertInto(builder, table, fields) ==
  [builder EXCEPT !.verb = "INSERT", !.table = table, !.fields = fields]

\* builder.set(data): one positional parameter for each field of data
set(builder, data) ==
  [builder EXCEPT
     !.fields = [i \in DOMAIN data.items |-> data.items[i][1]],
     !.params = @ \o [i \in DOMAIN data.items |-> data.items[i][2]]]

\* builder.values([row]): one positional parameter for each value
values(builder, row) == [builder EXCEPT !.params = @ \o row]

\* builder.where(sql)
builderWhere(builder, sql) == [builder EXCEPT !.hasWhere = TRUE, !.whereSql = sql]

\* the placeholder of the positional parameter i, counted from 1
positional(builder, i) ==
  <<Tok("ph", paramName(i - 1), inferParamType(builder.params[i]))>>
whereText(builder) ==
  IF builder.hasWhere THEN Kw(" WHERE ") \o builder.whereSql ELSE <<>>
\* the text of the statement
statement(builder) ==
  CASE builder.verb = "UPDATE" ->
         Kw("UPDATE ") \o <<Tok("id", builder.table, "")>> \o Kw(" SET ")
           \o join([i \in DOMAIN builder.fields |->
                      <<Tok("id", builder.fields[i], "")>> \o Kw(" = ")
                        \o positional(builder, i)],
                   Kw(", "))
           \o whereText(builder)
    [] builder.verb = "DELETE" ->
         Kw("DELETE FROM ") \o <<Tok("id", builder.table, "")>> \o whereText(builder)
    [] builder.verb = "INSERT" ->
         Kw("INSERT INTO ") \o <<Tok("id", builder.table, "")>> \o Kw(" (")
           \o join([i \in DOMAIN builder.fields |->
                      <<Tok("id", builder.fields[i], "")>>], Kw(", "))
           \o Kw(") VALUES (")
           \o join([i \in DOMAIN builder.params |-> positional(builder, i)], Kw(", "))
           \o Kw(")")
    [] OTHER -> <<>>
\* builder.build(): the text and the array of the positional parameters
buildQuery(builder) == [sql |-> statement(builder), params |-> builder.params]

\* ------------------------------------------------------------------------
\* Model: update, destroy (src/core/model.ts)
\* ------------------------------------------------------------------------
tableName == "users"

\* Model.paramsArrayToObject
paramsArrayToObject(array) ==
  [name \in {paramName(i - 1) : i \in DOMAIN array} |->
     array[CHOOSE i \in DOMAIN array : paramName(i - 1) = name]]

\* {...a, ...b} and Object.assign(a, b) of two parameter maps
spreadParams(a, b) == b @@ a

\* what an operation does that others see, in order: the listeners that
\* this.hooks.runHooks(type, ...) calls, and what client.command is given
HookEvent(type, called) ==
  [kind |-> "hook", type |-> type, called |-> called, sql |-> <<>>,
   params |-> NoParams]
CommandEvent(sql, commandParams) ==
  [kind |-> "command", type |-> "", called |-> <<>>, sql |-> sql,
   params |-> commandParams]
\* if (options.hooks !== false) await this.hooks.runHooks(type, ...)
hooked(options, hooks, type) ==
  IF HasKey(options, "hooks") /\ Get(options, "hooks") = Bool(FALSE) THEN <<>>
  ELSE <<HookEvent(type, runHooks(hooks, type))>>

\* the keys that tell an options object from a where condition
UpdateOptionKeys == {"where", "transaction", "validate", "returning", "fields", "hooks"}
DestroyOptionKeys ==
  {"transaction", "force", "limit", "hooks", "individualHooks", "truncate", "cascade"}
\* the parsing of whereOrOptions: the options, {} when none are given
optionsOf(whereOrOptions, optionKeys) ==
  IF Truthy(whereOrOptions) /\ \E key \in optionKeys : HasKey(whereOrOptions, key)
  THEN whereOrOptions ELSE Obj(<<>>)
\* and the direct where condition, undefined when none is given
whereConditionOf(whereOrOptions, optionKeys) ==
  IF ~Truthy(whereOrOptions) THEN Undef
  ELSE IF \E key \in optionKeys : HasKey(whereOrOptions, key)
  THEN (IF HasKey(whereOrOptions, "where") THEN Get(whereOrOptions, "where")
        ELSE Undef)
  ELSE whereOrOptions

\* What an operation on a model gives: the heap after it, the models it
\* made for itself (they are registered as every new Model is), the events,
\* the thrown error or "".
Done(h, made, events, threw) ==
  [heap |-> h, made |-> made, events |-> events, threw |-> threw]

\* finalWhereConditions, a new array: [whereCondition] for a direct where
\* condition, else [...this.queryState.whereConditions]; then
\* tempModel = this.clone() with tempModel.queryState.whereConditions =
\* finalWhereConditions.  The model and the heap after it.
tempModelOf(c, final) ==
  [model |-> [c.model EXCEPT !.whereConditions = final], heap |-> c.heap]
tempModel(this, h, whereCondition) ==
  IF whereCondition # Undef
  THEN tempModelOf(clone(this, h \o <<ObjectCell(whereCondition),
                                       ArrayCell(<<Len(h) + 1>>, FALSE)>>),
                   Len(h) + 2)
  ELSE tempModelOf(clone(this, Append(h, spread(h, this.whereConditions))),
                   Len(h) + 1)

\* whereResult.sql && whereResult.sql !== '1=1'
usable(whereResult) == whereResult.sql # <<>> /\ whereResult.sql # Kw("1=1")

\* updateRecords from the WHERE clause on: temp what tempModel gave,
\* builder the builder after set, whereResult the compiled clause
updateSent(hooks, data, options, temp, builder, whereResult) ==
  IF ~whereResult.ok
  THEN Done(temp.heap, <<temp.model>>,
            hooked(options, hooks, "beforeBulkUpdate"), "ModelError")
  ELSE Done(temp.heap, <<temp.model>>,
            hooked(options, hooks, "beforeBulkUpdate")
              \o <<CommandEvent(
                     statement(IF usable(whereResult)
                               THEN builderWhere(builder, whereResult.sql)
                               ELSE builder),
                     spreadParams(paramsArrayToObject(builder.params),
                                  IF usable(whereResult) THEN whereResult.params
                                  ELSE NoParams))>>
              \o hooked(options, hooks, "afterBulkUpdate"),
            "")
\* A mutation of updateRecords: the WHERE clause is compiled from offset 0.
updateWhere_FromZero(hooks, data, options, temp, builder) ==
  updateSent(hooks, data, options, temp, builder,
             buildWhereClause(Deref(temp.model, temp.heap), 0))
\* const currentParamCount = currentQuery.params.length, and the WHERE
\* clause of tempModel compiled from it
updateWhere(hooks, data, options, temp, builder) ==
  updateSent(hooks, data, options, temp, builder,
             buildWhereClause(Deref(temp.model, temp.heap), Len(builder.params)))

\* Model.updateRecords(data, whereOrOptions) on the model this, whose
\* HookManager is hooks
updateRecords(this, h, hooks, data, whereOrOptions) ==
  IF Len(data.items) = 0 THEN Done(h, <<>>, <<>>, "ModelError")
  ELSE IF /\ Len(h[this.whereConditions].items) = 0
          /\ whereConditionOf(whereOrOptions, UpdateOptionKeys) = Undef
  THEN Done(h, <<>>, <<>>, "ModelError")
  ELSE updateWhere(hooks, data, optionsOf(whereOrOptions, UpdateOptionKeys),
                   tempModel(this, h, whereConditionOf(whereOrOptions, UpdateOptionKeys)),
                   set(update(createSQLBuilder, tableName), data))

\* destroy from the WHERE clause on
destroySent(hooks, options, temp, builder, whereResult) ==
  IF ~whereResult.ok
  THEN Done(temp.heap, <<temp.model>>,
            hooked(options, hooks, "beforeBulkDestroy"), "ModelError")
  ELSE Done(temp.heap, <<temp.model>>,
            hooked(options, hooks, "beforeBulkDestroy")
              \o <<CommandEvent(
                     statement(IF usable(whereResult)
                               THEN builderWhere(builder, whereResult.sql)
                               ELSE builder),
                     IF usable(whereResult) THEN whereResult.params ELSE NoParams)>>
              \o hooked(options, hooks, "afterBulkDestroy"),
            "")
destroyWhere(hooks, options, temp, builder) ==
  destroySent(hooks, options, temp, builder,
              buildWhereClause(Deref(temp.model, temp.heap), 0))

\* Model.truncate()
truncate(h) ==
  Done(h, <<>>,
       <<CommandEvent(Kw("TRUNCATE TABLE ") \o <<Tok("raw", tableName, "")>>,
                      NoParams)>>,
       "")

\* Model.destroy(whereOrOptions)
destroy(this, h, hooks, whereOrOptions) ==
  IF /\ Len(h[this.whereConditions].items) = 0
     /\ whereConditionOf(whereOrOptions, DestroyOptionKeys) = Undef
     /\ ~Truthy(read(optionsOf(whereOrOptions, DestroyOptionKeys), "truncate"))
  THEN Done(h, <<>>, <<>>, "ModelError")
  ELSE IF Truthy(read(optionsOf(whereOrOptions, DestroyOptionKeys), "truncate"))
  THEN truncate(h)
  ELSE destroyWhere(hooks, optionsOf(whereOrOptions, DestroyOptionKeys),
                    tempModel(this, h, whereConditionOf(whereOrOptions, DestroyOptionKeys)),
                    deleteFrom(createSQLBuilder, tableName))

\* ------------------------------------------------------------------------
\* Model: create, reset, and the related records of an include
\* ------------------------------------------------------------------------
\* the schema of the model: a primary key and a required column
UsersSchema == <<<<"id", Key>>, <<"name", Required>>>>

\* Model.serializeRecord of one value, for the values that are no Date and
\* no object
serialized(value) ==
  CASE value.type = "boolean" -> Num(value.h)
    [] value.type \in {"null", "undefined"} -> Null
    [] OTHER -> value
serializeRecord(record) ==
  Obj([i \in DOMAIN record.items |->
         Entry(record.items[i][1], serialized(record.items[i][2]))])

\* error instanceof ValidationError: SchemaError and ValidationError both
\* extend ClickORMError, neither the other
instanceofValidationError(error) == error = "ValidationError"

\* the catch of create: the validationFailed hook for a ValidationError, and
\* a ModelError is thrown
createFailed(h, hooks, options, events, error) ==
  Done(h, <<>>,
       events \o (IF instanceofValidationError(error)
                  THEN hooked(options, hooks, "validationFailed") ELSE <<>>),
       "ModelError")

\* create after the validation: the hooks, the INSERT of the serialized
\* record, the hooks
createSent(h, hooks, options, events, builder) ==
  Done(h, <<>>,
       events
         \o hooked(options, hooks, "afterValidate")
         \o hooked(options, hooks, "beforeCreate")
         \o hooked(options, hooks, "beforeSave")
         \o <<CommandEvent(statement(builder), paramsArrayToObject(builder.params))>>
         \o hooked(options, hooks, "afterCreate")
         \o hooked(options, hooks, "afterSave"),
       "")
insertOf(record) ==
  values(insertInto(createSQLBuilder, tableName,
                    [i \in DOMAIN record.items |-> record.items[i][1]]),
         [i \in DOMAIN record.items |-> record.items[i][2]])

\* Model.create(data, options), the schema of the model being schema
create(h, hooks, schema, data, options) ==
  IF /\ ~(HasKey(options, "validate") /\ Get(options, "validate") = Bool(FALSE))
     /\ validate(data, schema).threw # ""
  THEN createFailed(h, hooks, options, hooked(options, hooks, "beforeValidate"),
                    validate(data, schema).threw)
  ELSE createSent(h, hooks, options, hooked(options, hooks, "beforeValidate"),
                  insertOf(serializeRecord(data)))

\* Model.reset(): new Model(tableName, schema, client)
reset(h) ==
  Done(h \o <<ArrayCell(<<>>, FALSE), ArrayCell(<<>>, FALSE), ArrayCell(<<>>, FALSE)>>,
       <<createEmptyQueryState(Len(h) + 1)>>, <<>>, "")

\* processIncludes of a model of another table that has many records of
\* this one, for one of its records:
\* RelationRegistry.getModel(relation.target).where({[foreignKey]: value})
\* and execute() of what that gives
QueryEvent(query) ==
  [kind |-> "query", type |-> "", called |-> <<>>, sql |-> query.where,
   params |-> query.params]
relatedRecords(target, h, keyCondition) ==
  [model |-> where(clone(target, Append(h, ObjectCell(keyCondition))), Len(h) + 1).model,
   heap |-> where(clone(target, Append(h, ObjectCell(keyCondition))), Len(h) + 1).heap]
processIncludes(target, h, keyCondition) ==
  Done(relatedRecords(target, h, keyCondition).heap,
       <<relatedRecords(target, h, keyCondition).model>>,
       <<QueryEvent(Built(relatedRecords(target, h, keyCondition).model,
                          relatedRecords(target, h, keyCondition).heap))>>,
       "")

\* ------------------------------------------------------------------------
\* Model: the operations as calls
\* ------------------------------------------------------------------------
\* what the caller passes
ArgData ==
  {Obj(<<>>), Obj(<<Entry("name", Str("name"))>>),
   Obj(<<Entry("name", Str("name")), Entry("age", Num(1))>>)}
ArgDirect == Cond1("id", Num(1))
WithoutHooks == Obj(<<Entry("where", ArgDirect), Entry("hooks", Bool(FALSE))>>)
ArgUpdate ==
  {Undef, ArgDirect, Cond2("id", Num(1), "name", Str("name")), Obj(<<>>),
   Cond1("and", Arr(<<>>)), WithoutHooks}
ArgDestroy ==
  {Undef, ArgDirect, Obj(<<>>), Obj(<<Entry("truncate", Bool(TRUE))>>),
   Obj(<<Entry("hooks", Bool(FALSE)), Entry("where", ArgDirect)>>)}
ArgRecords ==
  {Obj(<<Entry("id", Str("name")), Entry("name", Str("name"))>>),
   Obj(<<Entry("name", Str("name"))>>),
   Obj(<<Entry("id", Str("name"))>>),
   Obj(<<Entry("id", Str("name")), Entry("name", Str("name")), Entry("zip", Num(1))>>),
   Obj(<<Entry("id", Str("name")), Entry("name", Num(1))>>),
   Obj(<<Entry("id", Str("name")), Entry("name", Null)>>)}
ArgCreate ==
  {Obj(<<>>), Obj(<<Entry("hooks", Bool(FALSE))>>),
   Obj(<<Entry("validate", Bool(FALSE))>>)}
ArgKey == Cond1("user_id", Num(1))

\* an operation on models[i] has ended as r tells: the models it made are
\* new Models, each with its HookManager and each registered in its turn
Operated(i, op, data, options, internal, r) ==
  /\ operation = NoOperation
  /\ Len(models) + Len(r.made) <= MaxModels
  /\ heap' = r.heap
  /\ models' = models \o r.made
  /\ built' = built \o [k \in DOMAIN r.made |-> Built(r.made[k], r.heap)]
  /\ managers' = managers \o [k \in DOMAIN r.made |-> createHookManager]
  /\ origin' = origin \o [k \in DOMAIN r.made |-> Origin(i, internal)]
  /\ registered' = IF r.made = <<>> THEN registered ELSE Len(models) + Len(r.made)
  /\ operation' = Operation(op, i, data, options, r.events, r.threw)
  /\ UNCHANGED <<lastCall, notModelVars>>

\* models[i].updateRecords(data, whereOrOptions)
UpdateRecords ==
  \E i \in Callers, data \in ArgData, whereOrOptions \in ArgUpdate :
    Operated(i, "updateRecords", data, whereOrOptions, TRUE,
             updateRecords(models[i], heap, managers[i], data, whereOrOptions))

\* models[i].destroy(whereOrOptions)
Destroy ==
  \E i \in Callers, whereOrOptions \in ArgDestroy :
    Operated(i, "destroy", Undef, whereOrOptions, TRUE,
             destroy(models[i], heap, managers[i], whereOrOptions))

\* models[i].create(data, options)
Create ==
  \E i \in Callers, data \in ArgRecords, options \in ArgCreate :
    Operated(i, "create", data, options, TRUE,
             create(heap, managers[i], UsersSchema, data, options))

\* models[i].reset()
ResetModel ==
  \E i \in Callers :
    Operated(0, "reset", Undef, Undef, FALSE, reset(heap))

\* a model of another table loads the records of this table that belong to
\* one of its records
ProcessIncludes ==
  Operated(registered, "processIncludes", Undef, Undef, TRUE,
           processIncludes(models[registered], heap, ArgKey))

\* largest number of listeners on the models that run operations
MaxHooked == 1

\* models[i].hooks.addListener(type, f), before the operations
Listen ==
  \E i \in Callers, type \in ListenTypes :
    /\ operation = NoOperation
    /\ listenersOfAll(managers) < MaxHooked
    /\ managers' = [managers EXCEPT ![i] = addListener(@, type, "f", "")]
    /\ UNCHANGED notHookVars

\* the caller has seen what the operation did
Settled ==
  /\ operation # NoOperation
  /\ operation' = NoOperation
  /\ UNCHANGED <<whereVars, modelVars, schemaVars, typeVars, managers, registered,
                 origin>>

\* update and destroy of models that carry where conditions
NextUpdate == WhereNew \/ UpdateRecords \/ Destroy \/ Settled

\* the operations of models with listeners, and the registry
NextOrm ==
  \/ WhereNew \/ Limit \/ ResetModel \/ Listen \/ UpdateRecords \/ Destroy
  \/ Create \/ ProcessIncludes \/ Settled

\* ------------------------------------------------------------------------
\* Specifications
\* ------------------------------------------------------------------------
\* a WhereBuilder that is not used
IdleWhere ==
  /\ condition = Obj(<<>>)
  /\ startingParamCount = 0
  /\ params = NoParams
  /\ paramCounter = 0
  /\ result = NoResult

\* one WhereBuilder compiling one tree, among other calls
InitSpecWhere == InitWhere /\ InitModel /\ InitSchema /\ InitTypes
SpecWhere == InitSpecWhere /\ [][NextWhere]_vars

\* one base Model, the models the chainable calls return, and the caller
InitSpecModel == IdleWhere /\ InitModel /\ InitSchema /\ InitTypes
SpecModel == InitSpecModel /\ [][NextModel]_vars

\* one SchemaBuilder, the schema definitions the caller writes and the
\* TableSchema objects made of them
InitSpecSchema == IdleWhere /\ InitModel /\ InitSchema /\ InitTypes
SpecSchema == InitSpecSchema /\ [][NextSchema]_vars

\* the calls of the validator and of the type mapper, on every input
InitSpecTypes == IdleWhere /\ InitModel /\ InitSchema /\ InitTypes
SpecTypes == InitSpecTypes /\ [][NextTypes]_vars

\* a Model, its HookManager, the registry and the client
InitSpecOrm == IdleWhere /\ InitModel /\ InitSchema /\ InitTypes
SpecOrm == InitSpecOrm /\ [][NextOrm]_vars
InitSpecUpdate == IdleWhere /\ InitModel /\ InitSchema /\ InitTypes
SpecUpdate == InitSpecUpdate /\ [][NextUpdate]_vars

\* a HookManager and its caller
InitSpecHooks == IdleWhere /\ InitModel /\ InitSchema /\ InitTypes
SpecHooks == InitSpecHooks /\ [][NextHooks]_vars

\* ------------------------------------------------------------------------
\* Claims about the WhereBuilder
\* ------------------------------------------------------------------------
\* the names of the placeholders of a SQL string, left to right
Placeholders(sql) ==
  LET phs == SelectSeq(sql, LAMBDA t : t.k = "ph") IN [i \in DOMAIN phs |-> phs[i].s]

\* what a new builder with the same starting offset gives for a tree
FreshOutcome(c) == Outcome(buildFresh(c, startingParamCount))
LastOutcome ==
  [ok |-> result.ok, sql |-> result.sql, params |-> result.params,
   error |-> result.error]

\* C1: a returned SQL string holds the placeholders param{k} .. param{k+n-1}
\* in this order, k the starting offset, and the returned parameter map has
\* exactly these names as its keys.
C1_SequentialParams ==
  (result.called /\ result.ok) =>
    LET phs == Placeholders(result.sql) IN
    /\ \A i \in DOMAIN phs : phs[i] = paramName(startingParamCount + i - 1)
    /\ DOMAIN result.params = {phs[i] : i \in DOMAIN phs}

C1_Witness ==
  /\ result.called /\ result.ok
  /\ startingParamCount > 0
  /\ Len(Placeholders(result.sql)) >= 3
  /\ \E k \in Keys(condition) : combinator(k) # "field"

\* the values a tree binds as parameters, replaced by one value each:
\* canon(v) is the value that stands for v
RECURSIVE EraseCondition(_, _)
EraseArray(canon(_), value) == Arr([i \in DOMAIN value.items |-> canon(value.items[i])])
EraseOperator(canon(_), op, value) ==
  CASE op \in {"eq", "ne"} -> IF value.type = "null" THEN value ELSE canon(value)
    [] op \in {"gt", "gte", "lt", "lte", "like", "notLike", "ilike"} -> canon(value)
    [] op \in {"in", "notIn"} -> IF isArray(value) THEN EraseArray(canon, value) ELSE value
    [] op = "between" ->
         IF isArray(value) /\ Len(value.items) = 2 THEN EraseArray(canon, value)
         ELSE value
    [] OTHER -> value
EraseField(canon(_), value) ==
  IF isRawExpression(value) \/ value.type \in {"null", "undefined"} THEN value
  ELSE IF isWhereOperator(value)
  THEN Obj([i \in DOMAIN value.items |->
              <<value.items[i][1],
                EraseOperator(canon, value.items[i][1], value.items[i][2])>>])
  ELSE canon(value)
EraseCondition(canon(_), c) ==
  Obj([i \in DOMAIN c.items |->
    LET key == c.items[i][1]
        value == c.items[i][2]
    IN <<key,
         CASE combinator(key) \in {"and", "or"} ->
                Arr([j \in DOMAIN value.items |-> EraseCondition(canon, value.items[j])])
           [] combinator(key) = "not" -> EraseCondition(canon, value)
           [] OTHER -> EraseField(canon, value)>>])

\* one value for each host type (typeof, and the class of an object)
HostCanon(v) ==
  CASE v.type = "number" -> Num(0)
    [] v.type = "bigint" -> Big(0)
    [] v.type = "string" -> Str("")
    [] v.type = "boolean" -> Bool(FALSE)
    [] v.type = "object" /\ v.cls = "Date" -> DateV(0)
    [] v.type = "object" /\ v.cls = "Array" -> Arr(<<>>)
    [] v.type = "object" /\ v.cls = "Object" -> Obj(<<>>)
    [] OTHER -> v

\* one value for each host type, whole and fractional numbers kept apart
WireCanon(v) ==
  IF v.type = "number" /\ v.h % 2 # 0 THEN Half(1) ELSE HostCanon(v)

\* C2 as stated: trees that differ only in bound values of the same host
\* type compile to the same SQL.
C2_SameHostTypeSameSql ==
  result.called =>
    /\ FreshOutcome(EraseCondition(HostCanon, condition)).ok = result.ok
    /\ FreshOutcome(EraseCondition(HostCanon, condition)).sql = result.sql

\* C2 amended: trees that differ only in bound values of the same host type
\* and, for numbers, the same integrality compile to the same SQL, and the
\* SQL holds fixed text, identifiers, placeholders and raw text only.
C2_SameWireTypeSameSql ==
  result.called =>
    /\ FreshOutcome(EraseCondition(WireCanon, condition)).ok = result.ok
    /\ FreshOutcome(EraseCondition(WireCanon, condition)).sql = result.sql
    /\ \A i \in DOMAIN result.sql : result.sql[i].k \in {"kw", "id", "ph", "raw"}

C2_Witness ==
  /\ result.called /\ result.ok
  /\ EraseCondition(WireCanon, condition) # condition
  /\ \E n \in DOMAIN result.params : result.params[n] = Str("bob")
  /\ \E n \in DOMAIN result.params : result.params[n].type = "number"

\* the field keys of a tree, at every depth
RECURSIVE FieldKeys(_)
FieldKeys(c) ==
  UNION {
    LET key == c.items[i][1]
        value == c.items[i][2]
    IN CASE combinator(key) \in {"and", "or"} ->
              UNION {FieldKeys(value.items[j]) : j \in DOMAIN value.items}
         [] combinator(key) = "not" -> FieldKeys(value)
         [] OTHER -> {key}
    : i \in DOMAIN c.items}

\* C3: a tree with a field key outside the identifier grammar, at any depth
\* and whatever its value, makes build throw and return no SQL.
C3_InvalidFieldFailsClosed ==
  (result.called /\ \E f \in FieldKeys(condition) : ~isValidIdentifier(f)) =>
    /\ ~result.ok
    /\ result.sql = <<>>
    /\ result.params = NoParams
    /\ result.error # ""

C3_Witness ==
  /\ result.called /\ ~result.ok
  /\ \E i \in DOMAIN condition.items :
       /\ combinator(condition.items[i][1]) = "field"
       /\ ~isValidIdentifier(condition.items[i][1])
       /\ isRawExpression(condition.items[i][2])

\* C4: build(condition) gives what a new builder with the same starting
\* offset gives, whatever was compiled or reset on the builder before.
C4_HistoryIndependent ==
  result.called => LastOutcome = FreshOutcome(condition)

\* a tree was compiled after a call that threw and left a parameter behind
C4_Witness ==
  /\ result.called /\ result.ok
  /\ result.params # NoParams
  /\ \E n \in DOMAIN result.before : result.before[n] = Str("left behind")

\* the SQL of the children of a group, compiled one after the other from
\* parameter number k on
RECURSIVE ChildSql(_, _)
ChildSqlNext(children, r) == <<r.sql>> \o ChildSql(Tail(children), r.paramCounter)
ChildSql(children, k) ==
  IF children = <<>> THEN <<>>
  ELSE ChildSqlNext(children, processCondition(children[1], NoParams, k))

\* what a group of children is to compile to: nothing when no child gives
\* SQL, otherwise the non-empty ones joined by sep, in parentheses
ExpectedGroup(sqls, sep) ==
  LET kept == SelectSeq(sqls, LAMBDA x : Len(x) > 0) IN
  IF Len(kept) = 0 THEN <<>>
  ELSE Kw("(") \o join(kept, Kw(sep)) \o Kw(")")

ExpectedNot(sql) == IF Len(sql) = 0 THEN <<>> ELSE Kw("NOT (") \o sql \o Kw(")")

\* what the only entry of a one-entry tree is to compile to
ExpectedEntry(key, value) ==
  CASE key \in {"and", "$and"} ->
         ExpectedGroup(ChildSql(value.items, startingParamCount), " AND ")
    [] key \in {"or", "$or"} ->
         ExpectedGroup(ChildSql(value.items, startingParamCount), " OR ")
    [] OTHER ->
         ExpectedNot(processCondition(value, NoParams, startingParamCount).sql)

\* a SQL string has an opening parenthesis directly followed by a closing one
HasEmptyParens(sql) ==
  \E i \in 1..(Len(sql) - 1) :
    /\ sql[i].k = "kw"
    /\ sql[i].s \in {"(", "NOT (", " IN (", " NOT IN ("}
    /\ sql[i + 1].k = "kw"
    /\ sql[i + 1].s = ")"

\* C9: a returned SQL never has '()' or 'NOT ()'; a tree whose compilation
\* is empty gives 1=1 and no parameters; a tree that is one and/or group gives
\* its non-empty children joined in parentheses, one not entry gives NOT (child),
\* and either gives 1=1 when there is nothing to wrap.
C9_EmptyResultsDropped ==
  (result.called /\ result.ok) =>
    /\ ~HasEmptyParens(result.sql)
    /\ result.sql # <<>>
    /\ (processCondition(condition, NoParams, startingParamCount).sql = <<>>
          => result.sql = Kw("1=1") /\ result.params = NoParams)
    /\ (Len(condition.items) = 1 /\ combinator(condition.items[1][1]) # "field")
          => result.sql =
               (IF ExpectedEntry(condition.items[1][1], condition.items[1][2]) = <<>>
                THEN Kw("1=1")
                ELSE ExpectedEntry(condition.items[1][1], condition.items[1][2]))

\* a group of two children of which one is empty, and a group of empty children
C9_Witness ==
  /\ result.called /\ result.ok
  /\ Len(condition.items) = 1
  /\ condition.items[1][1] \in {"and", "$and", "or", "$or"}
  /\ Len(condition.items[1][2].items) = 2
  /\ \/ /\ result.sql # Kw("1=1")
        /\ \E i \in 1..2 :
             processCondition(condition.items[1][2].items[i], NoParams, 0).sql = <<>>
     \/ /\ result.sql = Kw("1=1")
        /\ condition.items[1][2].items[1] # Obj(<<>>)

\* every combinator key of a tree in its $-spelling
RECURSIVE Dollar(_)
Dollar(c) ==
  Obj([i \in DOMAIN c.items |->
    LET key == c.items[i][1]
        value == c.items[i][2]
    IN CASE key \in {"and", "$and"} ->
              <<"$and", Arr([j \in DOMAIN value.items |-> Dollar(value.items[j])])>>
         [] key \in {"or", "$or"} ->
              <<"$or", Arr([j \in DOMAIN value.items |-> Dollar(value.items[j])])>>
         [] key \in {"not", "$not"} -> <<"$not", Dollar(value)>>
         [] OTHER -> <<key, value>>])

\* every combinator key of a tree in its plain spelling
RECURSIVE Plain(_)
Plain(c) ==
  Obj([i \in DOMAIN c.items |->
    LET key == c.items[i][1]
        value == c.items[i][2]
    IN CASE key \in {"and", "$and"} ->
              <<"and", Arr([j \in DOMAIN value.items |-> Plain(value.items[j])])>>
         [] key \in {"or", "$or"} ->
              <<"or", Arr([j \in DOMAIN value.items |-> Plain(value.items[j])])>>
         [] key \in {"not", "$not"} -> <<"not", Plain(value)>>
         [] OTHER -> <<key, value>>])

\* no node of the tree has both spellings of a combinator
RECURSIVE OneSpelling(_)
OneSpelling(c) ==
  /\ ~({"and", "$and"} \subseteq Keys(c))
  /\ ~({"or", "$or"} \subseteq Keys(c))
  /\ ~({"not", "$not"} \subseteq Keys(c))
  /\ \A i \in DOMAIN c.items :
       LET key == c.items[i][1]
           value == c.items[i][2]
       IN CASE combinator(key) \in {"and", "or"} ->
                 \A j \in DOMAIN value.items : OneSpelling(value.items[j])
            [] combinator(key) = "not" -> OneSpelling(value)
            [] OTHER -> TRUE

\* C10: a tree in which no node has both spellings of a combinator gives the
\* SQL, the parameters or the error of the same tree with every combinator
\* spelled with $, and of the same tree with every combinator spelled plainly.
C10_SpellingsInterchangeable ==
  (result.called /\ OneSpelling(condition)) =>
    /\ LastOutcome = FreshOutcome(Dollar(condition))
    /\ LastOutcome = FreshOutcome(Plain(condition))

\* a tree of two levels with both kinds of spelling in it
C10_Witness ==
  /\ result.called /\ result.ok /\ OneSpelling(condition)
  /\ Dollar(condition) # condition
  /\ Plain(condition) # condition
  /\ result.params # NoParams
  /\ \E i \in DOMAIN condition.items :
       /\ condition.items[i][1] \in {"$and", "$or"}
       /\ \E j \in DOMAIN condition.items[i][2].items :
            Keys(condition.items[i][2].items[j]) \cap {"and", "or", "not"} # {}

\* ------------------------------------------------------------------------
\* Claims about the operators of a field
\* ------------------------------------------------------------------------
RECURSIVE SumSeq(_)
SumSeq(ns) == IF ns = <<>> THEN 0 ELSE ns[1] + SumSeq(Tail(ns))

\* an array, and an object that is compiled as a set of operators
IsList(value) == value.type = "object" /\ value.cls = "Array"
IsOperatorSet(value) ==
  /\ value.type = "object" /\ value.cls = "Object"
  /\ ~isRawExpression(value)
  /\ \E k \in Keys(value) : k \in validKeys

\* the sum of count(value) over the field entries of a tree, at every depth
RECURSIVE SumOverFields(_, _)
SumOverFields(count(_), c) ==
  SumSeq([i \in DOMAIN c.items |->
    LET key == c.items[i][1]
        value == c.items[i][2]
    IN CASE combinator(key) \in {"and", "or"} ->
              SumSeq([j \in DOMAIN value.items |-> SumOverFields(count, value.items[j])])
         [] combinator(key) = "not" -> SumOverFields(count, value)
         [] OTHER -> count(value)])

\* the field entries <<field, value>> of a tree, at every depth
RECURSIVE FieldEntries(_)
FieldEntries(c) ==
  UNION {
    LET key == c.items[i][1]
        value == c.items[i][2]
    IN CASE combinator(key) \in {"and", "or"} ->
              UNION {FieldEntries(value.items[j]) : j \in DOMAIN value.items}
         [] combinator(key) = "not" -> FieldEntries(value)
         [] OTHER -> {<<key, value>>}
    : i \in DOMAIN c.items}

\* the number of in (or notIn) operators with an empty array in a value
EmptyListsOf(op, value) ==
  IF IsOperatorSet(value)
  THEN Cardinality({i \in DOMAIN value.items :
                      /\ value.items[i][1] = op
                      /\ IsList(value.items[i][2])
                      /\ value.items[i][2].items = <<>>})
  ELSE 0
EmptyIn(value) == EmptyListsOf("in", value)
EmptyNotIn(value) == EmptyListsOf("notIn", value)

\* the number of parameters a field value must bind, an empty array none
MustBindOperator(op, value) ==
  CASE op \in {"eq", "ne"} -> IF value.type = "null" THEN 0 ELSE 1
    [] op \in {"gt", "gte", "lt", "lte", "like", "notLike", "ilike"} -> 1
    [] op \in {"in", "notIn"} -> Len(value.items)
    [] op = "between" -> 2
    [] OTHER -> 0
MustBind(value) ==
  IF isRawExpression(value) \/ value.type \in {"null", "undefined"} THEN 0
  ELSE IF IsOperatorSet(value)
  THEN SumSeq([i \in DOMAIN value.items |->
                 MustBindOperator(value.items[i][1], value.items[i][2])])
  ELSE 1

\* how often a token occurs in a SQL string
Occurrences(sql, token) == Cardinality({i \in DOMAIN sql : sql[i] = token})

\* C11: an in with an empty array compiles to 1=0 and a notIn with an empty
\* array to 1=1, each once per such operator; neither binds a parameter nor
\* advances the counter, so the SQL holds as many placeholders, and the map
\* as many parameters, as the other operators and literals of the tree bind.
C11_EmptyListsAreConstants ==
  (result.called /\ result.ok) =>
    /\ Occurrences(result.sql, Kw("1=0")[1]) = SumOverFields(EmptyIn, condition)
    /\ SumOverFields(EmptyNotIn, condition) > 0 =>
         Occurrences(result.sql, Kw("1=1")[1]) = SumOverFields(EmptyNotIn, condition)
    /\ Len(Placeholders(result.sql)) = SumOverFields(MustBind, condition)
    /\ Cardinality(DOMAIN result.params) = SumOverFields(MustBind, condition)
    /\ \A f \in ValidNames :
         /\ condition = Cond1(f, Cond1("in", Arr(<<>>))) =>
              result.sql = Kw("1=0") /\ result.params = NoParams
         /\ condition = Cond1(f, Cond1("notIn", Arr(<<>>))) =>
              result.sql = Kw("1=1") /\ result.params = NoParams

\* an empty in is followed, in the same tree, by an operator that binds a
\* parameter
C11_Witness ==
  /\ result.called /\ result.ok
  /\ SumOverFields(EmptyIn, condition) > 0
  /\ \E i, j \in DOMAIN result.sql :
       /\ i < j
       /\ result.sql[i] = Kw("1=0")[1]
       /\ result.sql[j].k = "ph"
       /\ result.sql[j].s = paramName(startingParamCount)

\* isNull: b replaced by notNull: not b and the reverse, b a boolean, in
\* every operator set of a tree
FlipNull(op, value) ==
  IF op \in {"isNull", "notNull"} /\ value.type = "boolean"
  THEN <<IF op = "isNull" THEN "notNull" ELSE "isNull", Bool(value.h = 0)>>
  ELSE <<op, value>>
FlipField(value) ==
  IF IsOperatorSet(value)
  THEN Obj([i \in DOMAIN value.items |->
              FlipNull(value.items[i][1], value.items[i][2])])
  ELSE value
RECURSIVE FlipCondition(_)
FlipCondition(c) ==
  Obj([i \in DOMAIN c.items |->
    LET key == c.items[i][1]
        value == c.items[i][2]
    IN <<key,
         CASE combinator(key) \in {"and", "or"} ->
                Arr([j \in DOMAIN value.items |-> FlipCondition(value.items[j])])
           [] combinator(key) = "not" -> FlipCondition(value)
           [] OTHER -> FlipField(value)>>])

\* C12: isNull and notNull are complements: a tree and the tree with every
\* isNull: b written notNull: not b (and the reverse) compile to the same
\* SQL and parameters; isNull: true and notNull: false give IS NULL,
\* isNull: false and notNull: true give IS NOT NULL, and no parameter is bound.
C12_NullTestsAreComplements ==
  result.called =>
    /\ FreshOutcome(FlipCondition(condition)) = LastOutcome
    /\ \A f \in ValidNames, b \in BOOLEAN :
         (\/ condition = Cond1(f, Cond1("isNull", Bool(b)))
          \/ condition = Cond1(f, Cond1("notNull", Bool(~b)))) =>
           /\ result.ok
           /\ result.sql = identifier(f).sql
                             \o Kw(IF b THEN " IS NULL" ELSE " IS NOT NULL")
           /\ result.params = NoParams

C12_Witness ==
  /\ result.called /\ result.ok
  /\ condition = Cond1("age", Cond1("notNull", Bool(FALSE)))
  /\ result.sql = identifier("age").sql \o Kw(" IS NULL")

\* an object value with a key outside the operator vocabulary
HasUnknownKey(value) ==
  /\ value.type = "object" /\ value.cls = "Object"
  /\ ~isRawExpression(value)
  /\ \E k \in Keys(value) : k \notin validKeys

\* the operator of an operator set has the shape its case asks for
WellShaped(op, value) ==
  CASE op \in {"in", "notIn"} -> IsList(value)
    [] op = "between" -> IsList(value) /\ Len(value.items) = 2
    [] OTHER -> TRUE

\* the first key of an operator set that is outside the vocabulary comes
\* before any operator of a wrong shape
FirstFailureIsUnknownKey(value, k) ==
  \E i \in DOMAIN value.items :
    /\ value.items[i][1] = k /\ k \notin validKeys
    /\ \A j \in 1..(i - 1) :
         /\ value.items[j][1] \in validKeys
         /\ WellShaped(value.items[j][1], value.items[j][2])

BadShape(value) ==
  /\ IsOperatorSet(value)
  /\ \E i \in DOMAIN value.items :
       /\ value.items[i][1] \in {"in", "notIn", "between"}
       /\ ~WellShaped(value.items[i][1], value.items[i][2])

\* C14: an in or notIn whose value is no array, and a between whose value is
\* no array of exactly two elements, at any depth, make build throw and
\* return no SQL; alone in a tree they fail with the error of their operator.
C14_ListShapesFail ==
  result.called =>
    /\ (\E e \in FieldEntries(condition) : BadShape(e[2])) =>
         ~result.ok /\ result.sql = <<>> /\ result.params = NoParams
    /\ \A f \in ValidNames, op \in {"in", "notIn", "between"} :
         (/\ Len(condition.items) = 1
          /\ condition.items[1][1] = f
          /\ IsOperatorSet(condition.items[1][2])
          /\ Len(condition.items[1][2].items) = 1
          /\ condition.items[1][2].items[1][1] = op
          /\ ~WellShaped(op, condition.items[1][2].items[1][2])) =>
           result.error = (CASE op = "in" -> "IN operator requires an array"
                             [] op = "notIn" -> "NOT IN operator requires an array"
                             [] op = "between" ->
                                  "BETWEEN operator requires an array of 2 values")

\* a between over an array of three elements has failed
C14_Witness ==
  /\ result.called /\ ~result.ok
  /\ condition = Cond1("age", Cond1("between", Prefix(3)))
  /\ result.error = "BETWEEN operator requires an array of 2 values"

\* ------------------------------------------------------------------------
\* Claims about the validation of records
\* ------------------------------------------------------------------------
IsNullish(value) == value.type \in {"null", "undefined"}
\* the record of the last call has only fields of its schema
KnownFields ==
  \A i \in DOMAIN typeCall.data.items :
    \E j \in DOMAIN typeCall.schema : typeCall.schema[j][1] = typeCall.data.items[i][1]
\* the column that the schema of the last call gives to a field
SchemaColumn(fieldName) ==
  typeCall.schema[CHOOSE j \in DOMAIN typeCall.schema :
                    typeCall.schema[j][1] = fieldName][2]
\* the record of the last call has a primary-key field
KeyProvided ==
  \E i \in DOMAIN typeCall.data.items :
    SchemaColumn(typeCall.data.items[i][1]).primaryKey

\* C15: for every schema and every partial record whose keys are all fields
\* of the schema, validatePartialData fails when a primary-key field is
\* present in the record, whatever its value, and it never fails on account
\* of a null or undefined value: a failure names a primary-key field or a
\* field whose value is neither null nor undefined, and the failure of
\* validateValue on a null of a non-nullable column never comes out of it.
C15_PartialKeyFailsNullPasses ==
  (typeCall.fn = "validatePartialData" /\ KnownFields) =>
    /\ KeyProvided => typeCall.out.threw # ""
    /\ typeCall.out.threw # "" =>
         /\ typeCall.out.threw \in {"primaryKey", "type"}
         /\ HasKey(typeCall.data, typeCall.out.field)
         /\ \/ SchemaColumn(typeCall.out.field).primaryKey
            \/ ~IsNullish(Get(typeCall.data, typeCall.out.field))
    /\ (~KeyProvided
        /\ \A i \in DOMAIN typeCall.data.items : IsNullish(typeCall.data.items[i][2]))
       => typeCall.out.threw = ""

\* a record gives null to a non-nullable column and then null to the
\* primary key: the call fails because of the primary key
C15_Witness ==
  /\ typeCall.fn = "validatePartialData"
  /\ KnownFields
  /\ Len(typeCall.data.items) = 2
  /\ typeCall.data.items[1][2] = Null
  /\ ~SchemaColumn(typeCall.data.items[1][1]).nullable
  /\ ~SchemaColumn(typeCall.data.items[1][1]).primaryKey
  /\ typeCall.data.items[2][2] = Null
  /\ SchemaColumn(typeCall.data.items[2][1]).primaryKey
  /\ typeCall.out = Raise("primaryKey", typeCall.data.items[2][1])

\* what the record of the last call gives to the i-th column of its schema
GivenTo(i) ==
  IF HasKey(typeCall.data, typeCall.schema[i][1])
  THEN Get(typeCall.data, typeCall.schema[i][1])
  ELSE Undef
\* the i-th column is required and the record does not give it a value
RequiredMissing(i) ==
  /\ IsNullish(GivenTo(i))
  /\ ~typeCall.schema[i][2].nullable
  /\ ~typeCall.schema[i][2].hasDefault
  /\ ~typeCall.schema[i][2].autoIncrement
\* the record gives the i-th column a value that validateValue rejects
Rejected(i) ==
  /\ ~IsNullish(GivenTo(i))
  /\ validateValue(GivenTo(i), typeCall.schema[i][2]) # Return(Bool(TRUE))
\* the last call failed with 'field is required' for the i-th column
RequiredRaised(i) == typeCall.out = Raise("required", typeCall.schema[i][1])

\* C16 as it is stated: for a record with no unknown fields, validateData
\* raises 'field is required' for a column if and only if the record gives
\* the column no value (absent, null or undefined) and the column is not
\* nullable, has no default and is not autoIncrement, a primary key being
\* no exception; and the call succeeds when no column is required and
\* missing and every value that is present passes validateValue.
C16_RequiredIffMissing ==
  (typeCall.fn = "validateData" /\ KnownFields) =>
    /\ \A i \in DOMAIN typeCall.schema : RequiredRaised(i) <=> RequiredMissing(i)
    /\ (\A i \in DOMAIN typeCall.schema : ~RequiredMissing(i) /\ ~Rejected(i))
       => typeCall.out = Return(Undef)

\* C16, amended: validateData stops at the first column, in the order of
\* the schema, that fails.  It raises 'field is required' for a column if
\* and only if that column is required and missing (a primary key being no
\* exception) and no column before it is required and missing or holds a
\* rejected value; it fails whenever some column is required and missing;
\* and it succeeds when no column is required and missing and every value
\* that is present passes validateValue.
C16_FirstFailureDecides ==
  (typeCall.fn = "validateData" /\ KnownFields) =>
    /\ \A i \in DOMAIN typeCall.schema :
         RequiredRaised(i) <=>
           /\ RequiredMissing(i)
           /\ \A j \in 1 .. i - 1 : ~RequiredMissing(j) /\ ~Rejected(j)
    /\ (\E i \in DOMAIN typeCall.schema : RequiredMissing(i))
       => typeCall.out.threw \in {"required", "type"}
    /\ (\A i \in DOMAIN typeCall.schema : ~RequiredMissing(i) /\ ~Rejected(i))
       => typeCall.out = Return(Undef)

\* a record that gives no value to a primary key without default: the call
\* fails with 'field is required' for the primary key
C16_Witness ==
  /\ typeCall.fn = "validateData"
  /\ KnownFields
  /\ \E i \in DOMAIN typeCall.schema :
       /\ typeCall.schema[i][2].primaryKey
       /\ RequiredMissing(i)
       /\ RequiredRaised(i)

\* ------------------------------------------------------------------------
\* Claims about the type mapper
\* ------------------------------------------------------------------------
\* C17: validateValue raises only when the value is null or undefined and
\* the column is not nullable, and what it raises then is a type-mapping
\* failure; for every other value and column definition (wrong host type,
\* out-of-range number, NaN, over-long FixedString, non-member enum value,
\* kinds with no specific check) it returns true or false.
C17_RaisesOnlyOnNull ==
  typeCall.fn = "validateValue" =>
    /\ typeCall.out.threw # "" =>
         /\ IsNullish(typeCall.value)
         /\ ~typeCall.column.nullable
         /\ typeCall.out.threw = "TypeMappingError"
    /\ typeCall.out.threw = "" => typeCall.out.value \in {Bool(TRUE), Bool(FALSE)}
    /\ ~IsNullish(typeCall.value) => typeCall.out.threw = ""

\* an over-long text for a FixedString column is answered with false
C17_Witness ==
  /\ typeCall.fn = "validateValue"
  /\ typeCall.column.type = "FixedString"
  /\ typeCall.value.type = "string"
  /\ textLength(typeCall.value.s) > typeCall.column.length
  /\ typeCall.column.length > 0
  /\ typeCall.out = Return(Bool(FALSE))

\* a parameterized kind without the parameter it requires
MissingParameter(definition) ==
  \/ definition.type = "FixedString" /\ definition.length = 0
  \/ definition.type = "Decimal" /\ definition.precision = 0
  \/ definition.type \in {"Array", "LowCardinality"} /\ definition.elementType = ""
  \/ definition.type \in {"Enum8", "Enum16"} /\ definition.enumValues = 0

\* C18: getClickHouseType raises a type-mapping failure whenever a
\* parameterized kind lacks its required parameter (FixedString without
\* length, Decimal without precision, Array or LowCardinality without
\* elementType, Enum8/Enum16 without or with empty enumValues), and it
\* returns a type string only when the required parameter is present.
C18_MissingParameterRaises ==
  typeCall.fn = "getClickHouseType" =>
    /\ MissingParameter(typeCall.column) => typeCall.out.threw = "TypeMappingError"
    /\ typeCall.out.threw = "" => ~MissingParameter(typeCall.column)

\* what the code does instead for FixedString and Decimal: it writes the
\* lengths 255 and the precision and scale 10 and 2 into the type string
C18_DefaultsWritten ==
  /\ typeCall.fn = "getClickHouseType"
  /\ typeCall.column.type = "FixedString"
  /\ typeCall.column.length = 0
  /\ ~typeCall.column.nullable
  /\ typeCall.out = Return(Str("FixedString(255)"))

\* v is of the host type of the kind k
HostTyped(v, k) ==
  CASE k \in NumberTypes -> v.type = "number"
    [] k \in WideTypes -> v.type \in {"bigint", "number"}
    [] k \in StringTypes \cup EnumTypes \cup {"LowCardinality"} -> v.type = "string"
    [] k = "Boolean" -> v.type = "boolean"
    [] k \in DateTypes -> v.cls = "Date"
    [] k \in {"Array", "Tuple"} -> v.cls = "Array"
    [] k \in JsonTypes \cup {"Nested"} -> v.cls = "Object"
    [] OTHER -> FALSE
\* two values are equal; a number and a bigint of a 64-bit kind are equal
\* when they are the same integer
Equal(v, w, k) ==
  IF k \in WideTypes
  THEN /\ v.type \in {"bigint", "number"}
       /\ w.type \in {"bigint", "number"}
       /\ v.cls = w.cls
       /\ v.h = w.h
  ELSE v = w
\* an integer outside of [-(2^53 - 1), 2^53 - 1]
OutsideExact(v) ==
  \/ v.cls = "2^53" /\ v.h >= 0
  \/ v.cls = "-2^53" /\ v.h <= 0
\* the last call is a conversion to the wire of a value of the host type of
\* its kind, or the reading back of one
Sent == typeCall.fn = "toClickHouseValue" /\ HostTyped(typeCall.value, typeCall.column.type)
ReadAgain == typeCall.fn = "roundTrip" /\ HostTyped(typeCall.value, typeCall.column.type)
\* the value read back is the value sent
CameBack ==
  /\ typeCall.out.threw = ""
  /\ Equal(typeCall.out.value, typeCall.value, typeCall.column.type)
  /\ (typeCall.column.type \in WideTypes /\ OutsideExact(typeCall.value))
     => typeCall.out.value = [typeCall.value EXCEPT !.type = "bigint"]

\* C19 as it is stated: for every column kind k and every value v of the
\* host type of k, fromClickHouseValue(toClickHouseValue(v, k), k) is equal
\* to v, and a 64-bit integer outside the exact-integer range comes back as
\* the exact bigint.
C19_RoundTrip ==
  /\ Sent => typeCall.out.threw = ""
  /\ ReadAgain => CameBack

\* a value that JSON writes and reads back as it is
RECURSIVE JsonSafe(_)
JsonSafe(v) ==
  CASE v.type \in {"null", "string", "boolean"} -> TRUE
    [] v.type = "number" -> v.cls # "NaN"
    [] v.cls = "Array" -> \A i \in DOMAIN v.items : JsonSafe(v.items[i])
    [] v.cls = "Object" -> \A i \in DOMAIN v.items : JsonSafe(v.items[i][2])
    [] OTHER -> FALSE
\* the values of the host type that the wire can carry
Carried(v, k) ==
  CASE k \in WideTypes -> v.type = "bigint" \/ (v.cls # "NaN" /\ v.h % 2 = 0)
    [] k \in DateTypes -> v.h >= 0
    [] k \in JsonTypes -> JsonSafe(v)
    [] OTHER -> TRUE

\* C19, amended: the round trip reproduces v for every kind k and every
\* value v of the host type of k when, for a 64-bit kind, v is an integer
\* (a number and a bigint being equal when they are the same integer), for
\* a Date kind, v is a valid Date, and for JSON and Map, v holds only JSON
\* values; a 64-bit integer outside the exact-integer range comes back as
\* the exact bigint.
C19_RoundTripOfCarried ==
  /\ (Sent /\ Carried(typeCall.value, typeCall.column.type)) => typeCall.out.threw = ""
  /\ (ReadAgain /\ Carried(typeCall.value, typeCall.column.type)) => CameBack

\* the number 2^53 + 2 of an Int64 column came back as the bigint 2^53 + 2
C19_Witness ==
  /\ ReadAgain
  /\ typeCall.column.type = "Int64"
  /\ typeCall.value = At("2^53", 2)
  /\ typeCall.data = BigAt("2^53", 2)
  /\ typeCall.out = Return(BigAt("2^53", 2))

\* the value that the last fromClickHouseValue was given
Wire == IF typeCall.fn = "roundTrip" THEN typeCall.data ELSE typeCall.value
\* the last call read a 64-bit integer that came as a bigint, as a number
\* or as a decimal numeral
ReadInteger ==
  /\ typeCall.fn \in {"fromClickHouseValue", "roundTrip"}
  /\ typeCall.column.type \in WideTypes
  /\ \/ Wire.type = "bigint"
     \/ Wire.type = "number" /\ Wire.cls # "NaN" /\ Wire.h % 2 = 0
     \/ Wire.type = "string" /\ readNumeral(Wire.s) # <<>>
\* that integer, as <<power, h>>
IntegerRead ==
  IF Wire.type = "string" THEN readNumeral(Wire.s) ELSE <<Wire.cls, Wire.h>>

\* C20: for the Int64 and UInt64 kinds, fromClickHouseValue returns a plain
\* number if and only if the integer lies within [-(2^53 - 1), 2^53 - 1],
\* both bounds included, and otherwise a bigint; in both cases what it
\* returns is numerically equal to the integer it was given.
C20_ExactRangeDecides ==
  ReadInteger =>
    /\ typeCall.out.threw = ""
    /\ typeCall.out.value.type =
         (IF OutsideExact([cls |-> IntegerRead[1], h |-> IntegerRead[2]])
          THEN "bigint" ELSE "number")
    /\ typeCall.out.value.cls = IntegerRead[1]
    /\ typeCall.out.value.h = IntegerRead[2]

\* the numeral of 2^53 - 1 is read as the number 2^53 - 1
C20_Witness ==
  /\ typeCall.fn = "fromClickHouseValue"
  /\ typeCall.column.type = "Int64"
  /\ typeCall.value = Str(numeral("2^53", -2))
  /\ typeCall.out = Return(MAX_SAFE_INTEGER)

\* a Decimal column with a declared scale that column validation accepts
DeclaredDecimal(definition) ==
  /\ definition.type = "Decimal"
  /\ definition.hasScale
  /\ validateColumnDefinition("id", definition).ok
\* Decimal(precision, scale) of the declared values, in Nullable(...) for a
\* nullable column
DeclaredString(definition) ==
  IF definition.nullable
  THEN "Nullable(Decimal(" \o ToString(definition.precision) \o ", "
         \o ToString(definition.scale) \o "))"
  ELSE "Decimal(" \o ToString(definition.precision) \o ", "
         \o ToString(definition.scale) \o ")"

\* C28: for every Decimal column accepted by column validation (precision
\* > 0 and a declared scale with 0 <= scale <= precision), getClickHouseType
\* renders exactly Decimal(precision, scale) with the declared values,
\* scale 0 included, and Nullable(Decimal(precision, scale)) when the
\* column is nullable.
C28_DecimalRendersDeclared ==
  typeCall.fn = "getClickHouseType" /\ DeclaredDecimal(typeCall.column) =>
    typeCall.out = Return(Str(DeclaredString(typeCall.column)))

\* the part the code keeps: a declared scale other than 0 is rendered
C28_PositiveScaleRendered ==
  /\ typeCall.fn = "getClickHouseType"
  /\ DeclaredDecimal(typeCall.column)
  /\ typeCall.column.scale # 0
  => typeCall.out = Return(Str(DeclaredString(typeCall.column)))

\* ------------------------------------------------------------------------
\* Claims about the required and the optional columns of a schema
\* ------------------------------------------------------------------------
AsSet(s) == {s[i] : i \in DOMAIN s}
\* the last call listed the columns of a schema that the constructor took
ColumnsListed == typeCall.fn = "getColumns" /\ typeCall.out.threw = ""
RequiredListed == AsSet(Get(typeCall.out.value, "required").items)
OptionalListed == AsSet(Get(typeCall.out.value, "optional").items)
\* a primary key that is not nullable, has no default and is not
\* autoIncrement
PlainKey(definition) ==
  /\ definition.primaryKey
  /\ ~definition.nullable /\ ~definition.hasDefault /\ ~definition.autoIncrement

Listened(hooks) == {type \in HookTypes : getListenerCount(hooks, type) > 0}

\* C30: after any sequence of addListener, removeListener and clearHooks
\* calls, getActiveHookTypes() returns exactly the hook types that have
\* listeners, those with getListenerCount(t) > 0 and hasHooks(t); a type
\* whose last listener was removed is not returned.
C30_ActiveTypesHaveListeners ==
  \A i \in DOMAIN managers :
    /\ AsSet(getActiveHookTypes(managers[i])) = Listened(managers[i])
    /\ \A type \in HookTypes :
         hasHooks(managers[i], type) <=> getListenerCount(managers[i], type) > 0

\* ------------------------------------------------------------------------
\* Claims about update and destroy
\* ------------------------------------------------------------------------
\* the commands that the last operation sent to the client
Commands == SelectSeq(operation.events, LAMBDA e : e.kind = "command")
\* an UPDATE statement was sent by updateRecords
UpdateSent == operation.op = "updateRecords" /\ Commands # <<>>
\* where WHERE stands in a statement, 0 if nowhere
WhereAt(sql) ==
  IF \E k \in DOMAIN sql : sql[k] = Kw(" WHERE ")[1]
  THEN CHOOSE k \in DOMAIN sql : sql[k] = Kw(" WHERE ")[1]
  ELSE 0
\* the statement before WHERE and after it
SetPart(sql) == IF WhereAt(sql) = 0 THEN sql ELSE SubSeq(sql, 1, WhereAt(sql) - 1)
WherePart(sql) ==
  IF WhereAt(sql) = 0 THEN <<>> ELSE SubSeq(sql, WhereAt(sql) + 1, Len(sql))
\* the fields that SET binds
Bound == operation.data.items

\* C21: in every UPDATE statement built by updateRecords the WHERE clause
\* is compiled with a starting offset equal to the number of parameters
\* bound by the SET clause: its placeholders are numbered from that count
\* on, the SET names and the WHERE names are disjoint, every placeholder of
\* the statement is written once and has exactly one entry in the merged
\* parameter map, and the map keeps every SET value.
C21_SetAndWhereDisjoint ==
  UpdateSent =>
    /\ Placeholders(SetPart(Commands[1].sql)) =
         [k \in DOMAIN Bound |-> paramName(k - 1)]
    /\ Placeholders(WherePart(Commands[1].sql)) =
         [k \in DOMAIN Placeholders(WherePart(Commands[1].sql)) |->
            paramName(Len(Bound) + k - 1)]
    /\ AsSet(Placeholders(SetPart(Commands[1].sql)))
         \cap AsSet(Placeholders(WherePart(Commands[1].sql))) = {}
    /\ DOMAIN Commands[1].params = AsSet(Placeholders(Commands[1].sql))
    /\ \A k \in DOMAIN Bound :
         Commands[1].params[paramName(k - 1)] = Bound[k][2]

\* an UPDATE of two fields with a WHERE clause of two parameters was sent
C21_Witness ==
  /\ UpdateSent
  /\ Len(Bound) = 2
  /\ Placeholders(Commands[1].sql) = <<"param0", "param1", "param2", "param3">>
  /\ WhereAt(Commands[1].sql) # 0

\* the direct where condition of the last update or destroy, undefined
\* when none was given, and the chained conditions of its receiver
DirectWhere ==
  whereConditionOf(operation.options,
                   IF operation.op = "updateRecords" THEN UpdateOptionKeys
                   ELSE DestroyOptionKeys)
Chained == Deref(models[operation.receiver], heap).whereConditions
Truncating ==
  /\ operation.op = "destroy"
  /\ Truthy(read(optionsOf(operation.options, DestroyOptionKeys), "truncate"))

\* C22: every UPDATE statement that updateRecords sends and every DELETE
\* statement that destroy sends contains a WHERE clause; with no effective
\* condition the operation raises before any command is sent; the only
\* exception is destroy with truncate: true, which sends TRUNCATE.
C22_AlwaysWhere ==
  operation.op \in {"updateRecords", "destroy"} =>
    \A k \in DOMAIN Commands :
      IF Truncating
      THEN Commands[k].sql[1] = Kw("TRUNCATE TABLE ")[1]
      ELSE WhereAt(Commands[k].sql) # 0

\* the part the code keeps: with no chained and no direct where condition
\* (and no truncate) the operation raises and sends nothing
C22_NoConditionRaises ==
  /\ operation.op \in {"updateRecords", "destroy"}
  /\ Chained = <<>>
  /\ DirectWhere = Undef
  /\ ~Truncating
  => operation.threw = "ModelError" /\ operation.events = <<>>

\* C23: when the model carries chained where conditions and updateRecords
\* or destroy is given a direct where condition too, the WHERE clause of
\* the statement is the conjunction of all the chained conditions and the
\* direct one; no chained condition is dropped.
C23_ChainedAndDirect ==
  /\ operation.op \in {"updateRecords", "destroy"}
  /\ Commands # <<>>
  /\ Chained # <<>>
  /\ DirectWhere # Undef
  => WherePart(Commands[1].sql) =
       buildFresh(Cond1("and", Arr(Append(Chained, DirectWhere))),
                  Len(operation.data.items)).sql

\* what the code does: the direct condition alone is the WHERE clause
C23_DirectReplacesChained ==
  /\ operation.op \in {"updateRecords", "destroy"}
  /\ Commands # <<>>
  /\ DirectWhere # Undef
  => IF usable(buildFresh(DirectWhere, Len(operation.data.items)))
     THEN WherePart(Commands[1].sql) =
            buildFresh(DirectWhere, Len(operation.data.items)).sql
     ELSE WhereAt(Commands[1].sql) = 0

\* ------------------------------------------------------------------------
\* Claims about create, the hooks of a model and the registry
\* ------------------------------------------------------------------------
\* the last operation was a create with the validation on, with the hooks on
Validating ==
  /\ operation.op = "create"
  /\ ~(HasKey(operation.options, "validate")
        /\ Get(operation.options, "validate") = Bool(FALSE))
HooksOn(options) == ~(HasKey(options, "hooks") /\ Get(options, "hooks") = Bool(FALSE))

\* C24: create with validation enabled sends an INSERT command only for
\* records that validateData accepts against the schema of the model: a
\* record with an unknown field, a missing required field (the primary key
\* included) or a value that fails validateValue for its column is rejected
\* before any command reaches the client.
C24_InsertOnlyValidated ==
  Validating /\ Commands # <<>> =>
    validateData(operation.data, UsersSchema).threw = ""

\* what decides in the code: TableSchema.validate
C24_SchemaValidateDecides ==
  Validating =>
    (Commands # <<>> <=> validate(operation.data, UsersSchema).threw = "")

\* the listeners that the last operation called for a hook type
Called(type) ==
  IF \E k \in DOMAIN operation.events :
       operation.events[k].kind = "hook" /\ operation.events[k].type = type
  THEN operation.events[CHOOSE k \in DOMAIN operation.events :
                          /\ operation.events[k].kind = "hook"
                          /\ operation.events[k].type = type].called
  ELSE <<>>
\* the schema validation rejected the record of a create with hooks and
\* validation on
CreateRejected ==
  /\ Validating
  /\ HooksOn(operation.options)
  /\ validate(operation.data, UsersSchema).threw # ""
AfterValidation ==
  {"afterValidate", "beforeCreate", "beforeSave", "afterCreate", "afterSave"}

\* C27: when create runs with hooks and validation enabled and the schema
\* validation rejects the record, the validationFailed listeners are run
\* before the ModelError is raised, no INSERT command is sent, and none of
\* the afterValidate, beforeCreate, beforeSave, afterCreate and afterSave
\* listeners run.
C27_ValidationFailedRuns ==
  CreateRejected =>
    /\ operation.threw = "ModelError"
    /\ Called("validationFailed") =
         runHooks(managers[operation.receiver], "validationFailed")
    /\ Commands = <<>>
    /\ \A type \in AfterValidation : Called(type) = <<>>

\* the part the code keeps
C27_NothingSentNoLaterHooks ==
  CreateRejected =>
    /\ operation.threw = "ModelError"
    /\ Commands = <<>>
    /\ \A type \in AfterValidation : Called(type) = <<>>

\* the model, the model it was cloned from, and so on
RECURSIVE Ancestors(_)
Ancestors(i) == IF i = 0 THEN {} ELSE {i} \cup Ancestors(origin[i].from)
\* an update with the hooks on has sent its command
HookedUpdate ==
  /\ operation.op = "updateRecords"
  /\ HooksOn(optionsOf(operation.options, UpdateOptionKeys))
  /\ Commands # <<>>
\* the listeners of a HookManager for beforeBulkUpdate were called before
\* the command
RanBefore(hooks) ==
  \A k \in DOMAIN runHooks(hooks, "beforeBulkUpdate") :
    /\ operation.events[1].kind = "hook"
    /\ operation.events[1].type = "beforeBulkUpdate"
    /\ runHooks(hooks, "beforeBulkUpdate")[k] \in AsSet(operation.events[1].called)

\* C26: the listeners registered on a model are run by the operations on
\* every model derived from it through chainable calls: after
\* model.hooks.addListener(beforeBulkUpdate, f), model.where(c).update(d)
\* with hooks enabled calls f before the UPDATE command is sent.
C26_DerivedModelsRunListeners ==
  HookedUpdate =>
    \A j \in Ancestors(operation.receiver) \ {0} : RanBefore(managers[j])

\* the part the code keeps: the listeners of the model itself
C26_OwnListenersRun ==
  HookedUpdate => RanBefore(managers[operation.receiver])

\* the query state that createEmptyQueryState gives, every reference
\* followed
EmptyState ==
  [whereConditions |-> <<>>, selectFields |-> <<>>, selectNull |-> TRUE,
   orderByFields |-> <<>>, limitValue |-> NullCount, offsetValue |-> NullCount,
   groupByFields |-> <<>>, groupNull |-> TRUE, includeOptions |-> <<>>]

\* the first n models are the base model and what chainable calls and
\* reset() returned
OnlyChained(n) == \A i \in 1 .. n : ~origin[i].internal

\* C25: chainable calls and reset() never change the RelationRegistry:
\* after any sequence of chainable calls RelationRegistry.getModel(table)
\* returns the model registered for the table, with an empty query state,
\* so the related-record queries of an include carry only the key
\* condition of the relation, and no where or limit state of a chain.
C25_RegistryKeepsEmptyModel ==
  /\ OnlyChained(Len(models)) =>
       Deref(models[registered], heap) = EmptyState
  /\ operation.op = "processIncludes" /\ OnlyChained(Len(models) - 1) =>
       /\ operation.events[1].sql = buildFresh(ArgKey, 0).sql
       /\ built[Len(models)].limit = NullCount

\* the part the code keeps: reset() registers a model with an empty state
C25_ResetRegistersEmptyModel ==
  operation.op = "reset" => Deref(models[registered], heap) = EmptyState

\* ------------------------------------------------------------------------
\* Claims about the chainable calls of Model
\* ------------------------------------------------------------------------
ChainOps == {"where", "select", "orderBy", "limit", "offset", "groupBy", "include"}

\* what a call must make of the query state q of its receiver, the
\* arguments read in the heap h as they are when the call returns
ApplyCall(call, q, h) ==
  CASE call.op = "where" ->
         [q EXCEPT !.whereConditions = Append(@, h[call.ref].value)]
    [] call.op = "select" ->
         [q EXCEPT !.selectFields = h[call.ref].items, !.selectNull = FALSE]
    [] call.op = "orderBy" ->
         [q EXCEPT !.orderByFields = Append(@, [field |-> "age", direction |-> "DESC"])]
    [] call.op = "limit" -> [q EXCEPT !.limitValue = call.count]
    [] call.op = "offset" -> [q EXCEPT !.offsetValue = call.count]
    [] call.op = "groupBy" ->
         [q EXCEPT !.groupByFields = <<"age">>, !.groupNull = FALSE]
    [] call.op = "include" -> [q EXCEPT !.includeOptions = @ \o ArgInclude]

\* C5: every chainable call returns a new Model and leaves the query state of
\* its receiver, and of every other model, as it was, so that the query a
\* model builds is the one of its receiver with this one call applied; a call
\* that throws returns no model and changes nothing.
C5_ChainCallsIsolated ==
  [][
    /\ Len(models') # Len(models) =>
         /\ Len(models') = Len(models) + 1
         /\ lastCall'.op \in ChainOps /\ lastCall'.ok
         /\ \A i \in DOMAIN models :
              /\ models'[i] = models[i]
              /\ Deref(models'[i], heap') = Deref(models[i], heap)
              /\ Built(models'[i], heap') = Built(models[i], heap)
         /\ \A i \in DOMAIN models : models'[Len(models')] # models[i]
         /\ Deref(models'[Len(models')], heap')
              = ApplyCall(lastCall', Deref(models[lastCall'.receiver], heap), heap')
    /\ (lastCall'.op \in ChainOps /\ ~lastCall'.ok) =>
         /\ lastCall'.count < 0
         /\ UNCHANGED <<heap, models, built>>
  ]_vars

\* two chains branched from the base model: the first took limit(5), the
\* second has just taken where(...), and the base model still builds the
\* query it built when it was new
C5_Witness ==
  /\ Len(models) = 3
  /\ lastCall.op = "where" /\ lastCall.receiver = 1 /\ lastCall.ok
  /\ Built(models[2], heap).limit = 5
  /\ Built(models[2], heap).where = <<>>
  /\ Built(models[3], heap).where # <<>>
  /\ Built(models[3], heap).limit = NullCount
  /\ Built(models[1], heap) = built[1]

\* the addresses of the arrays and condition objects a model refers to
Cells(m, h) ==
  ({m.whereConditions, m.selectFields, m.orderByFields, m.groupByFields,
    m.includeOptions} \ {NullRef})
    \cup {h[m.whereConditions].items[i] : i \in DOMAIN h[m.whereConditions].items}

\* C6: the query state is deep-copied and never shared: whatever the caller
\* does to the arguments it passed, every model builds the SQL and the
\* parameters it built when it was returned, and no two models refer to the
\* same array or condition object.
C6_DeepCopiedNeverShared ==
  /\ \A i \in DOMAIN models : Built(models[i], heap) = built[i]
  /\ \A i, j \in DOMAIN models :
       i # j => Cells(models[i], heap) \cap Cells(models[j], heap) = {}

\* the part of C6 that the code keeps: the arrays that clone copies (the
\* where conditions, the sort list, the include list, the group list) are
\* never the same array in two models
C6_ClonedArraysNotShared ==
  \A i, j \in DOMAIN models :
    i # j =>
      /\ models[i].whereConditions # models[j].whereConditions
      /\ models[i].orderByFields # models[j].orderByFields
      /\ models[i].includeOptions # models[j].includeOptions
      /\ (models[i].groupByFields # NullRef =>
            models[i].groupByFields # models[j].groupByFields)

\* ------------------------------------------------------------------------
\* Claims about the schemas
\* ------------------------------------------------------------------------
\* a table name and a schema definition that make a valid schema
ValidSchema(name, schema) ==
  /\ name # "" /\ isValidIdentifier(name) /\ Len(Chars(name)) <= MaxTableName
  /\ Len(schema) >= 1
  /\ Cardinality({i \in DOMAIN schema : schema[i][2].primaryKey}) <= 1
  /\ \A i \in DOMAIN schema : ~(schema[i][2].primaryKey /\ schema[i][2].nullable)
  /\ \A i \in DOMAIN schema : validateColumnDefinition(schema[i][1], schema[i][2]).ok

ConstructingOps ==
  {"constructor", "defineSchema", "fromJSON", "clone", "addColumn",
   "removeColumn", "modifyColumn", "build"}

\* C7: no invalid schema exists as a constructed object: every TableSchema
\* has a valid table name, at least one column, at most one primaryKey column,
\* no nullable primaryKey column and only valid columns, and a call that
\* raised has returned no object.
C7_NoInvalidSchemaExists ==
  /\ \A i \in DOMAIN schemas : ValidSchema(schemas[i].name, objects[schemas[i].schema])
  /\ Len(constructed) = Len(schemas)

\* the part of C7 that the code keeps: a TableSchema is valid when it is
\* constructed, and a call that raises constructs nothing; two primaryKey
\* columns are both named by the error
C7_ValidWhenConstructed ==
  [][
    /\ Len(schemas') # Len(schemas) =>
         /\ schemaCall'.ok /\ schemaCall'.op \in ConstructingOps
         /\ schemas' = Append(schemas, schemas'[Len(schemas')])
         /\ ValidSchema(schemas'[Len(schemas')].name,
                        objects'[schemas'[Len(schemas')].schema])
    /\ ~schemaCall'.ok => UNCHANGED <<objects, schemas, constructed>>
    /\ schemaCall'.error = "Multiple primary keys found" =>
         Len(schemaCall'.fields) >= 2
  ]_vars

\* C8: a constructed TableSchema is an immutable value: whatever is called
\* later on it, on the schemas made of it or on the SchemaBuilder that built
\* it, it shows the column names, the column definitions and the primary key
\* it showed when it was constructed.
C8_SchemaImmutable ==
  \A i \in DOMAIN schemas : Shown(schemas[i], objects) = constructed[i]

\* the part of C8 that the code keeps: addColumn, removeColumn, modifyColumn
\* and clone leave what their receiver shows as it was, also when they raise
C8_ColumnCallsKeepReceiver ==
  [][
    schemaCall'.op \in {"addColumn", "removeColumn", "modifyColumn", "clone"} =>
      \A i \in DOMAIN schemas :
        /\ schemas'[i] = schemas[i]
        /\ Shown(schemas'[i], objects') = Shown(schemas[i], objects)
  ]_vars

====
